---------------------------- MODULE Spec2Model ----------------------------
(***************************************************************************)
(* GestureFlow: the per-frame particle simulation (Particles.useFrame in   *)
(* src/components/Experience.tsx, in its three successive versions), the   *)
(* hand-detection loop of src/App.tsx and the HandTracker it polls.        *)
(*                                                                         *)
(* Numbers.  The program computes in IEEE floating point.  The model uses  *)
(* fixed point: a number q stands for q / S, with S = 10^6, products and   *)
(* quotients are truncated toward zero, and the one non-finite value the   *)
(* program can produce, NaN (from 0/0), is the distinguished value NaN,    *)
(* which every arithmetic operator propagates and every comparison         *)
(* rejects, as IEEE arithmetic does.  TLC integers are 32 bits wide, so    *)
(* products and quotients are computed limb by limb.                       *)
(***************************************************************************)
EXTENDS Integers, Sequences, FiniteSets, TLC

(***************************************************************************)
(* Fixed-point arithmetic                                                  *)
(***************************************************************************)
K == 10 * 100                    \* limb of the fixed-point product
S == K * K                       \* fixed-point units per 1.0
NaN == 2000 * S                  \* IEEE NaN; no finite value is this large

IsNaN(a) == a = NaN
Finite(a) == a # NaN

Abs(a) == IF a < 0 THEN -a ELSE a
Sgn(a) == IF a < 0 THEN -1 ELSE IF a > 0 THEN 1 ELSE 0
Max2(a, b) == IF a >= b THEN a ELSE b

\* Conversion of a decimal literal n/d of the source to fixed point.
Lit(n, d) == (n * S) \div d

\* a + b, a - b : NaN if either operand is NaN
Add(a, b) == IF IsNaN(a) \/ IsNaN(b) THEN NaN ELSE a + b
Sub(a, b) == IF IsNaN(a) \/ IsNaN(b) THEN NaN ELSE a - b
Neg(a) == IF IsNaN(a) THEN NaN ELSE -a

\* |a| * |b| / S for a, b >= 0, truncated, without leaving 32 bits
MulMag(a, b) ==
  LET ah == a \div K
      al == a % K
      bh == b \div K
      bl == b % K
  IN  ah * bh + (ah * bl + al * bh + (al * bl) \div K) \div K

\* a * b
Mul(a, b) ==
  IF IsNaN(a) \/ IsNaN(b) THEN NaN
  ELSE Sgn(a) * Sgn(b) * MulMag(Abs(a), Abs(b))

\* the n decimal digits of r / b after the point, for 0 <= r < b
RECURSIVE FracDigits(_, _, _)
FracDigits(r, b, n) ==
  IF n = 0 THEN 0
  ELSE LET t == r * 10
       IN  FracDigits(t % b, b, n - 1) + (t \div b) * (10 ^ (n - 1))

\* |a| * S / |b| for a >= 0, b > 0, truncated
DivMag(a, b) == (a \div b) * S + FracDigits(a % b, b, 6)

\* a / b.  0/0 is NaN.  A nonzero numerator over zero (an IEEE infinity)
\* does not occur: every divisor of the program is the Euclidean norm of
\* the vector whose components it divides.
Div(a, b) ==
  IF IsNaN(a) \/ IsNaN(b) \/ b = 0 THEN NaN
  ELSE Sgn(a) * Sgn(b) * DivMag(Abs(a), Abs(b))

\* comparisons: false when an operand is NaN
Gt(a, b) == Finite(a) /\ Finite(b) /\ a > b
Lt(a, b) == Finite(a) /\ Finite(b) /\ a < b

\* Math.abs, Math.sign
MathAbs(a) == IF IsNaN(a) THEN NaN ELSE Abs(a)
MathSign(a) == IF IsNaN(a) THEN NaN ELSE Sgn(a) * S

\* THREE.MathUtils.lerp(x, y, t) = (1 - t) * x + t * y
Lerp(x, y, t) == Add(x, Mul(Sub(y, x), t))

\* floor(sqrt(n)) for an integer n >= 0, by Newton's iteration from above
RECURSIVE SqrtIter(_, _)
SqrtIter(n, x) ==
  LET y == (x + n \div x) \div 2
  IN  IF y >= x THEN x ELSE SqrtIter(n, y)

ISqrt(n) == IF n = 0 THEN 0 ELSE SqrtIter(n, 46341)

\* the power of ten by which a vector whose largest component is m is
\* scaled down so that the sum of its three squares stays within 32 bits
RECURSIVE NormShift(_, _)
NormShift(m, k) == IF m \div k < 20000 THEN k ELSE NormShift(m, k * 10)

\* Math.sqrt(dx*dx + dy*dy + dz*dz), to at least four significant digits
Norm3(v) ==
  IF IsNaN(v[1]) \/ IsNaN(v[2]) \/ IsNaN(v[3]) THEN NaN
  ELSE LET m == Max2(Abs(v[1]), Max2(Abs(v[2]), Abs(v[3])))
           k == NormShift(m, 1)
           a == Abs(v[1]) \div k
           b == Abs(v[2]) \div k
           c == Abs(v[3]) \div k
       IN  k * ISqrt(a * a + b * b + c * c)

\* vectors are triples <<x, y, z>>
VAdd(u, v) == <<Add(u[1], v[1]), Add(u[2], v[2]), Add(u[3], v[3])>>
VSub(u, v) == <<Sub(u[1], v[1]), Sub(u[2], v[2]), Sub(u[3], v[3])>>
VScale(u, s) == <<Mul(u[1], s), Mul(u[2], s), Mul(u[3], s)>>
VDiv(u, s) == <<Div(u[1], s), Div(u[2], s), Div(u[3], s)>>
VFinite(u) == Finite(u[1]) /\ Finite(u[2]) /\ Finite(u[3])
Zero3 == <<0, 0, 0>>

\* Math.round: the nearest integer, halves toward +infinity (an integer,
\* not a fixed-point number)
FloorDiv(a, b) == a \div b
MathRound(a) == FloorDiv(a + S \div 2, S)

\* Math.sin, by Bhaskara's rational approximation on [0, pi] after range
\* reduction (absolute error below 0.002)
PI == Div(3141593, 1000000)
HalfTurn(a) == a % PI
SinHalf(x) ==
  LET w == Mul(x, PI - x)
  IN  Div(16 * w, 5 * Mul(PI, PI) - 4 * w)
MathSin(a) ==
  IF IsNaN(a) THEN NaN
  ELSE IF (a \div PI) % 2 = 0 THEN SinHalf(HalfTurn(a)) ELSE -SinHalf(HalfTurn(a))
MathCos(a) == IF IsNaN(a) THEN NaN ELSE MathSin(a + PI \div 2)

(***************************************************************************)
(* Program constants (src/constants.ts, src/types.ts)                      *)
(***************************************************************************)
PHYSICS ==
  [ friction             |-> Lit(96, 100),
    maxSpeed             |-> Lit(6, 10),
    attractForce         |-> Lit(3, 100),
    attractFalloff       |-> Lit(8, 1),
    repelForce           |-> Lit(3, 10),
    repelFalloff         |-> Lit(9, 1),
    compressionThreshold |-> Lit(35, 10),
    compressionForce     |-> Lit(15, 100),
    vortexSpin           |-> Lit(2, 10),
    returnHomeForce      |-> Lit(4, 1000),
    boundaryLimit        |-> Lit(40, 1),
    silhouetteSmoothing  |-> Lit(15, 100) ]

\* PARTICLE_VISUALS: the entries the ticks read
PARTICLE_VISUALS ==
  [ baseSize      |-> Lit(2, 1000),
    sizeVariation |-> Lit(5, 1000),
    hueRange      |-> [min |-> Lit(55, 100), max |-> Lit(9, 10)] ]

\* colours as THREE.Color holds them: <<r, g, b>>, each in [0, 1]
White == <<S, S, S>>                              \* 0xffffff
Cyan == <<0, Lit(888, 1000), S>>                  \* 0x00f2ff
Violet == <<Lit(162, 1000), 0, S>>                \* 0x7000ff
Magenta == <<S, 0, Lit(658, 1000)>>               \* '#ff00d4'

\* DRAWING_CONFIG[style]: size, color, decay and jitter
DRAWING_CONFIG ==
  [ NEON   |-> [size |-> Lit(8, 100),  color |-> Magenta,
                decay |-> Lit(99, 100),   jitter |-> Lit(2, 100)],
    SMOKE  |-> [size |-> Lit(15, 100), color |-> White,
                decay |-> Lit(94, 100),   jitter |-> Lit(8, 100)],
    TRAIL  |-> [size |-> Lit(2, 100),  color |-> Cyan,
                decay |-> Lit(995, 1000), jitter |-> Lit(1, 100)],
    PLASMA |-> [size |-> Lit(12, 100), color |-> Violet,
                decay |-> Lit(96, 100),   jitter |-> Lit(5, 100)] ]

AppMode == {"PLAYGROUND", "AIR_DRAWING", "SILHOUETTE", "AUDIO_REACTIVE", "AI_ORACLE"}
HandGesture == {"NONE", "PEACE", "ROCK", "THUMBS_UP", "POINTER", "OK"}
DrawingStyle == {"NEON", "SMOKE", "TRAIL", "PLASMA"}

\* MODES.map(m => m.id), in order
MODES == <<"PLAYGROUND", "AIR_DRAWING", "SILHOUETTE", "AUDIO_REACTIVE", "AI_ORACLE">>

(***************************************************************************)
(* Bounds of the model                                                     *)
(***************************************************************************)
\* particles simulated (PARTICLE_COUNT is 30000 in the program)
NumParticles == 3
\* particles of the drawing pool (drawPoolSize is 8000 in the program)
DrawPool == 2
\* frames rendered in one behaviour of the general specification
MaxFrames == 3
\* input events (detections, mode and configuration changes) in one behaviour
MaxInputs == 2

Particles == 0 .. NumParticles - 1
Axes == 1 .. 3

(***************************************************************************)
(* Hand data (HandTracker.processResults) and scene configurations         *)
(***************************************************************************)
LandmarkIds == 0 .. 20

\* The palm of a hand from its wrist landmark (landmarks[0]): mirrored
\* horizontally, y flipped, z scaled by -5.
PalmOf(wrist) ==
  << Sub(Mul(Sub(S, wrist[1]), 2 * S), S),
     Neg(Sub(Mul(wrist[2], 2 * S), S)),
     Mul(wrist[3], -5 * S) >>

\* A HandData record as processResults returns it.  The landmarks other
\* than the wrist (0) and the index tip (8) lie between the two.
MkHand(wrist, indexTip, open, pinching, gesture, right) ==
  [ landmarks  |-> [l \in LandmarkIds |->
                      IF l = 0 THEN wrist
                      ELSE IF l = 8 THEN indexTip
                      ELSE << (wrist[1] + indexTip[1]) \div 2,
                              (wrist[2] + indexTip[2]) \div 2 + l * 1000,
                              (wrist[3] + indexTip[3]) \div 2 >>],
    palm       |-> PalmOf(wrist),
    isOpen     |-> open,
    isPinching |-> pinching,
    gesture    |-> gesture,
    isRight    |-> right ]

\* aiConfig: null, or a SceneConfig.  shapeVertices is optional.
NoShape == [defined |-> FALSE, v |-> <<>>]
Shape(vs) == [defined |-> TRUE, v |-> vs]
NullConfig ==
  [ present |-> FALSE, friction |-> 0, attractForce |-> 0, repelForce |-> 0,
    maxSpeed |-> 0, shapeVertices |-> NoShape,
    primary |-> Zero3, secondary |-> Zero3, particleSize |-> 0 ]
\* primary and secondary are the colours new THREE.Color() makes of the
\* configuration's colour strings
SceneConfig(fr, at, rp, ms, shape, primary, secondary, particleSize) ==
  [ present |-> TRUE, friction |-> fr, attractForce |-> at, repelForce |-> rp,
    maxSpeed |-> ms, shapeVertices |-> shape,
    primary |-> primary, secondary |-> secondary, particleSize |-> particleSize ]

(***************************************************************************)
(* State                                                                   *)
(***************************************************************************)
VARIABLES
  version,            \* which version of Particles (1, 2, 3) and App is running
  mode,               \* App state `mode`, the prop of Particles
  aiConfig,           \* App state `aiConfig`
  drawStyle,          \* App state `drawStyle`
  handsRef,           \* handsRef.current
  time,               \* state.clock elapsed time
  frames,             \* frames rendered so far
  horizon,            \* frames rendered in this behaviour at most
  inputs,             \* input events so far
  pos,                \* the position attribute array, per particle
  vel,                \* velocities, per particle
  initialPositions,   \* initialPositions, per particle
  activeFriction,     \* activeFriction.current
  activeAttract,      \* activeAttract.current
  activeMaxSpeed,     \* activeMaxSpeed.current
  tween,              \* the gsap tweens of the three refs above
  timeScale,          \* timeScale.current
  chaosFactor,        \* chaosFactor.current
  alignmentFactor,    \* alignmentFactor.current
  smoothedLandmarks,  \* smoothedLandmarks.current, 42 vectors
  colors,             \* the color attribute array, per particle
  sizes,              \* the size attribute array, per particle
  drawTimers,         \* drawTimers, per particle
  drawIndex,          \* drawIndex.current
  threw,              \* the last useFrame callback ended by an exception
  handLandmarker,     \* HandTracker: handLandmarker is loaded
  videoTime,          \* video.currentTime
  lastVideoTime,      \* HandTracker.lastVideoTime
  now,                \* performance.now(), in milliseconds
  loops,              \* detectLoop callbacks run so far
  lastHandX,          \* lastHandXRef.current
  gestureCooldown,    \* gestureCooldownRef.current
  lastUiUpdate,       \* lastUiUpdateRef.current
  uiHands,            \* App state `uiHands`
  audioLevel,         \* App state `audioLevel`, the prop audioData
  showAiInput,        \* App state `showAiInput`
  pendingModes,       \* modes whose fade-out tween of handleModeChange runs
  isAiLoading,        \* App state `isAiLoading`
  aiPrompt,           \* App state `aiPrompt`
  inFlight,           \* generateOracleWorld calls awaiting generateContent
  requests            \* generateOracleWorld calls that sent a request so far

simVars == << pos, vel, colors, sizes, activeFriction, activeAttract, activeMaxSpeed, tween,
              timeScale, chaosFactor, alignmentFactor, smoothedLandmarks,
              drawTimers, drawIndex, threw, time, frames >>
propVars == << mode, aiConfig, drawStyle >>
trackerVars == << handLandmarker, videoTime, lastVideoTime >>
oracleVars == << isAiLoading, aiPrompt, inFlight, requests >>
appVars == << now, loops, lastHandX, gestureCooldown, lastUiUpdate, uiHands,
              audioLevel, showAiInput, pendingModes, oracleVars >>
vars == << version, horizon, handsRef, inputs, initialPositions, simVars,
           propVars, trackerVars, appVars >>

(***************************************************************************)
(* gsap.to(ref, {current: target, duration: 2}): the tween of a ref.  One  *)
(* frame lasts 1/60 s; the ease is gsap's default, power1.out.             *)
(***************************************************************************)
FrameRate == 6 * 10
TweenFrames == 2 * FrameRate
NoTween == [active |-> FALSE, from |-> 0, to |-> 0, elapsed |-> 0]
StartTween(current, target) ==
  [active |-> TRUE, from |-> current, to |-> target, elapsed |-> 0]

\* the value of the tweened property after `elapsed` frames
TweenValue(tw, elapsed) ==
  LET rem == TweenFrames - elapsed
  IN  Sub(tw.to, Mul(Sub(tw.to, tw.from), Div(rem * rem, TweenFrames * TweenFrames)))

\* one gsap tick of a tween
TweenStep(tw) ==
  IF ~tw.active THEN tw
  ELSE [tw EXCEPT !.elapsed = @ + 1, !.active = (tw.elapsed + 1 < TweenFrames)]

\* the ref after the gsap tick that moved its tween to tw
TweenedRef(current, tw0) ==
  IF tw0.active THEN TweenValue(tw0, tw0.elapsed + 1) ELSE current

(***************************************************************************)
(* THREE.Color and the visual attributes of a particle                     *)
(***************************************************************************)
\* Math.min: NaN when an operand is NaN
MathMin(a, b) == IF IsNaN(a) \/ IsNaN(b) THEN NaN ELSE IF a <= b THEN a ELSE b

\* THREE.MathUtils.euclideanModulo(n, m) = ((n % m) + m) % m, for m > 0
euclideanModulo(n, m) == IF IsNaN(n) THEN NaN ELSE n % m

\* hue2rgb of three's Color.js; a NaN hue fails every comparison and
\* falls through to the last return
hue2rgb(p, q, t) ==
  LET t1 == IF Lt(t, 0) THEN Add(t, S) ELSE t
      t2 == IF Gt(t1, S) THEN Sub(t1, S) ELSE t1
  IN  IF Lt(t2, S \div 6) THEN Add(p, Mul(Mul(Sub(q, p), 6 * S), t2))
      ELSE IF Lt(t2, S \div 2) THEN q
      ELSE IF Lt(t2, (2 * S) \div 3)
      THEN Add(p, Mul(Mul(Sub(q, p), 6 * S), Sub((2 * S) \div 3, t2)))
      ELSE p

\* Color.setHSL(h, s, l), for s and l in [0, 1]
setHSL(h, s, l) ==
  LET hm == euclideanModulo(h, S)
      p == IF l <= S \div 2 THEN Mul(l, S + s) ELSE l + s - Mul(l, s)
      q == 2 * l - p
  IN  IF s = 0 THEN <<l, l, l>>
      ELSE << hue2rgb(q, p, Add(hm, S \div 3)),
              hue2rgb(q, p, hm),
              hue2rgb(q, p, Sub(hm, S \div 3)) >>

\* Color.lerp(color, alpha): each channel moves by alpha of its gap
ColorLerp(c, d, alpha) ==
  << Add(c[1], Mul(Sub(d[1], c[1]), alpha)),
     Add(c[2], Mul(Sub(d[2], c[2]), alpha)),
     Add(c[3], Mul(Sub(d[3], c[3]), alpha)) >>

\* the smoothing factor of the displayed colour and size
Smoothing == Lit(1, 10)

\* colArr = lerp(colArr, targetCol, 0.1), channel by channel
SmoothColor(c, target) ==
  << Lerp(c[1], target[1], Smoothing), Lerp(c[2], target[2], Smoothing),
     Lerp(c[3], target[3], Smoothing) >>

\* hVal and the HSL colour of a speed, versions 1 and 2
SpeedColor(currentSpeed) ==
  LET hueShift == MathMin(Mul(currentSpeed, 2 * S), S)
      hVal == Add(PARTICLE_VISUALS.hueRange.min,
                  Mul(PARTICLE_VISUALS.hueRange.max - PARTICLE_VISUALS.hueRange.min,
                      hueShift))
  IN  setHSL(hVal, Lit(8, 10), S \div 2)

\* targetCol of the first version
TargetColV1(currentSpeed, cfg) ==
  LET hueShift == MathMin(Mul(currentSpeed, 2 * S), S)
  IN  IF cfg.present
      THEN ColorLerp(ColorLerp(SpeedColor(currentSpeed), cfg.primary, S \div 2),
                     cfg.secondary, Mul(hueShift, S \div 2))
      ELSE SpeedColor(currentSpeed)

\* targetCol of the gesture version
TargetColV2(currentSpeed, cfg) ==
  IF cfg.present THEN ColorLerp(SpeedColor(currentSpeed), cfg.primary, S \div 2)
  ELSE SpeedColor(currentSpeed)

\* aiConfig?.particleSize || PARTICLE_VISUALS.baseSize
ParticleSize(cfg) ==
  IF cfg.present /\ cfg.particleSize # 0 /\ Finite(cfg.particleSize)
  THEN cfg.particleSize ELSE PARTICLE_VISUALS.baseSize

\* the target size of versions 1 and 2
TargetSize(cfg, audioData) == Add(ParticleSize(cfg), Mul(audioData, Lit(1, 10)))

\* sizeArr[i] = lerp(sizeArr[i], target, 0.1)
SmoothSize(size, cfg, audioData) == Lerp(size, TargetSize(cfg, audioData), Smoothing)

(***************************************************************************)
(* Particles.useFrame, first version (Experience.tsx 199-282)              *)
(***************************************************************************)
\* hPositions: the palm scaled into simulation space
ScaledPalm(h) ==
  << Mul(h.palm[1], 5 * S), Mul(h.palm[2], 3 * S), Mul(h.palm[3], 5 * S) >>

\* aiConfig?.repelForce || PHYSICS.repelForce
RepelStrength(cfg) ==
  IF cfg.present /\ cfg.repelForce # 0 /\ Finite(cfg.repelForce)
  THEN cfg.repelForce ELSE PHYSICS.repelForce

\* a hand that pushes every particle away
PushAwayV1(p, v, h, attract, cfg) ==
  VSub(v, VScale(VDiv(VSub(ScaledPalm(h), p), Norm3(VSub(ScaledPalm(h), p))),
                 PHYSICS.repelForce))

\* the velocity after hand h acted on a particle at p: attraction to an open
\* hand inside attractFalloff, else repulsion from a hand that is not
\* pinching inside repelFalloff
HandForceV1(p, v, h, attract, cfg) ==
  LET d == VSub(ScaledPalm(h), p)
      dist == Norm3(d)
  IN  IF h.isOpen /\ Lt(dist, PHYSICS.attractFalloff)
      THEN VAdd(v, VScale(VDiv(d, dist),
                          Mul(Sub(PHYSICS.attractFalloff, dist), attract)))
      ELSE IF ~h.isPinching /\ Lt(dist, PHYSICS.repelFalloff)
      THEN VSub(v, VScale(VDiv(d, dist),
                          Mul(Sub(PHYSICS.repelFalloff, dist), RepelStrength(cfg))))
      ELSE v

RECURSIVE HandsV1(_, _, _, _, _, _)
HandsV1(p, v, hands, j, attract, cfg) ==
  IF j > Len(hands) THEN v
  ELSE HandsV1(p, HandForceV1(p, v, hands[j], attract, cfg), hands, j + 1,
               attract, cfg)

\* transitionRef.current.intensity, never written
tIntensity == S

HomeModes == {"PLAYGROUND", "AI_ORACLE"}

\* a return force toward the origin instead of the home position
ReturnOriginV1(p, v, home, m) ==
  VAdd(v, VScale(VSub(Zero3, p), PHYSICS.returnHomeForce))
\* no return force
NoReturnV1(p, v, home, m) == v

\* return-home force of the first version
ReturnHomeV1(p, v, home, m) ==
  IF m \in HomeModes
  THEN VAdd(v, VScale(VScale(VSub(home, p), PHYSICS.returnHomeForce), tIntensity))
  ELSE v

\* a clamp that doubles the velocity
DoubleSpeed(v, maxSpeed) == VScale(v, 2 * S)

\* rescale v to the maximum speed when it is faster
ClampSpeed(v, maxSpeed) ==
  LET speed == Norm3(v)
  IN  IF Gt(speed, MathAbs(maxSpeed)) THEN VScale(v, Div(maxSpeed, speed)) ELSE v

\* boundary: an axis beyond the limit is set to sign * limit and its
\* velocity component is multiplied by -coef
BounceAxis(x, vx, coef) ==
  IF Gt(MathAbs(x), PHYSICS.boundaryLimit)
  THEN <<Mul(MathSign(x), PHYSICS.boundaryLimit), Mul(vx, -coef)>>
  ELSE <<x, vx>>

Bounce(p, v, coef) ==
  LET b == [a \in Axes |-> BounceAxis(p[a], v[a], coef)]
  IN  [pos |-> <<b[1][1], b[2][1], b[3][1]>>, vel |-> <<b[1][2], b[2][2], b[3][2]>>]

\* one particle, one frame; advanced and incoming are x, y, z and vx, vy, vz
\* as the boundary check finds them
StepV1(p, v, home, hands, m, cfg, friction, attract, maxSpeed) ==
  LET v1 == HandsV1(p, v, hands, 1, attract, cfg)
      v2 == ReturnHomeV1(p, v1, home, m)
      v3 == VScale(v2, friction)
      v4 == ClampSpeed(v3, maxSpeed)
      b == Bounce(VAdd(p, v4), v4, Lit(9, 10))
  IN  [pos |-> b.pos, vel |-> b.vel, currentSpeed |-> Norm3(v3),
       advanced |-> VAdd(p, v4), incoming |-> v4]

(***************************************************************************)
(* Particles.useFrame, gesture version (Experience.tsx 458-562)            *)
(***************************************************************************)
\* activeGesture: the gesture of hands[0], NONE without hands
ActiveGesture(hands) == IF Len(hands) > 0 THEN hands[1].gesture ELSE "NONE"

targetTimeScale(g) == IF g = "PEACE" THEN Lit(8, 100) ELSE S
targetChaos(g) == IF g = "ROCK" THEN S ELSE 0
targetAlignment(g) == IF g = "THUMBS_UP" THEN S ELSE 0

\* the interpolation factor of the three blended scalars
BlendFactor == Lit(5, 100)
\* a blend that jumps to its target
BlendJump(current, target) == target
Blend(current, target) == Lerp(current, target, BlendFactor)

HandForceV2(p, v, h, attract, cfg) ==
  LET hp == << Mul(h.palm[1], 5 * S), Mul(h.palm[2], 3 * S), Mul(h.palm[3], 5 * S) >>
      d == VSub(hp, p)
      dist == Norm3(d)
  IN  IF (h.isOpen \/ h.gesture = "POINTER") /\ Lt(dist, PHYSICS.attractFalloff)
      THEN VAdd(v, VScale(VDiv(d, dist),
                          Mul(Mul(Sub(PHYSICS.attractFalloff, dist), attract),
                              IF h.gesture = "POINTER" THEN 4 * S ELSE S)))
      ELSE IF ~h.isPinching /\ Lt(dist, PHYSICS.repelFalloff)
      THEN VSub(v, VScale(VDiv(d, dist),
                          Mul(Sub(PHYSICS.repelFalloff, dist), RepelStrength(cfg))))
      ELSE v

RECURSIVE HandsV2(_, _, _, _, _, _)
HandsV2(p, v, hands, j, attract, cfg) ==
  IF j > Len(hands) THEN v
  ELSE HandsV2(p, HandForceV2(p, v, hands[j], attract, cfg), hands, j + 1,
               attract, cfg)

\* hasShape: aiConfig?.shapeVertices && shapeVertices.length > 0
HasShape(cfg) ==
  cfg.present /\ cfg.shapeVertices.defined /\ Len(cfg.shapeVertices.v) > 0

\* shapeVertices[i % shapeVertices.length]
ShapeVertex(cfg, i) == cfg.shapeVertices.v[(i % Len(cfg.shapeVertices.v)) + 1]

\* home / shape attraction of the gesture version
HomeShapeV2(i, p, v, home, m, cfg) ==
  IF m \in HomeModes
  THEN IF HasShape(cfg)
       THEN VAdd(v, VScale(VSub(ShapeVertex(cfg, i), p), Lit(15, 1000)))
       ELSE VAdd(v, VScale(VSub(home, p), PHYSICS.returnHomeForce))
  ELSE v

\* chaos jitter: rnd[a] is the value Math.random() returned for axis a
ChaosV2(v, chaos, rnd) ==
  IF Gt(chaos, Lit(1, 10))
  THEN << Add(v[1], Mul(Mul(Sub(rnd[1], S \div 2), chaos), Lit(4, 10))),
          Add(v[2], Mul(Mul(Sub(rnd[2], S \div 2), chaos), Lit(4, 10))),
          Add(v[3], Mul(Mul(Sub(rnd[3], S \div 2), chaos), Lit(4, 10))) >>
  ELSE v

gridSize == Lit(12, 10)

\* alignment snap of one coordinate
SnapAxis(x, alignment) ==
  LET targetX == IF IsNaN(x) THEN NaN ELSE MathRound(Div(x, gridSize)) * gridSize
  IN  Lerp(x, targetX, Mul(alignment, Lit(15, 100)))

\* a snap without the threshold
AlignAlwaysV2(p, alignment) ==
  <<SnapAxis(p[1], alignment), SnapAxis(p[2], alignment), SnapAxis(p[3], alignment)>>

\* the alignment snap of the position, above the threshold only
AlignV2(p, alignment) ==
  IF Gt(alignment, Lit(1, 10))
  THEN <<SnapAxis(p[1], alignment), SnapAxis(p[2], alignment), SnapAxis(p[3], alignment)>>
  ELSE p

\* an advance that ignores the time-scale
AdvanceUnscaled(p, v, ts) == VAdd(p, v)

\* advance by the velocity scaled by the time-scale
AdvanceV2(p, v, ts) == VAdd(p, VScale(v, ts))

\* one particle, one frame; moved is x, y, z after the advance, advanced and
\* incoming are x, y, z and vx, vy, vz as the boundary check finds them
StepV2(i, p, v, home, hands, m, cfg, friction, attract, ts, chaos, alignment, rnd) ==
  LET v1 == HandsV2(p, v, hands, 1, attract, cfg)
      v2 == HomeShapeV2(i, p, v1, home, m, cfg)
      v3 == ChaosV2(v2, chaos, rnd)
      v4 == VScale(v3, friction)
      p1 == AdvanceV2(p, v4, ts)
      p2 == AlignV2(p1, alignment)
      b == Bounce(p2, v4, Lit(5, 10))
  IN  [pos |-> b.pos, vel |-> b.vel, currentSpeed |-> Norm3(b.vel),
       moved |-> p1, advanced |-> p2, incoming |-> v4]

(***************************************************************************)
(* Particles.useFrame, drawing / compression version (Experience.tsx       *)
(* 707-830).  The particle loop runs in index order and shares drawIndex   *)
(* and drawTimers, so it is modelled as a fold over the particles.         *)
(***************************************************************************)
\* a landmark in simulation space: mirrored, y flipped, z scaled by -50
LandmarkTarget(lm) ==
  << Mul(Sub(Mul(Sub(S, lm[1]), 2 * S), S), 10 * S),
     Mul(Neg(Sub(Mul(lm[2], 2 * S), S)), 8 * S),
     Mul(lm[3], -50 * S) >>

VLerp(u, w, t) == <<Lerp(u[1], w[1], t), Lerp(u[2], w[2], t), Lerp(u[3], w[3], t)>>

\* smoothedLandmarks after the smoothing pass over the hands of the frame
SmoothLandmarks(sl, hands) ==
  [k \in 0 .. 41 |->
     IF k \div 21 < Len(hands)
     THEN VLerp(sl[k], LandmarkTarget(hands[k \div 21 + 1].landmarks[k % 21]),
                PHYSICS.silhouetteSmoothing)
     ELSE sl[k]]

\* the palm scaled into simulation space, latest version
ScaledPalmV3(h) ==
  << Mul(h.palm[1], 10 * S), Mul(h.palm[2], 8 * S), Mul(h.palm[3], 10 * S) >>

\* midpoint of the two palms (the zero vector unless there are two hands)
Midpoint(hands) ==
  IF Len(hands) = 2
  THEN VScale(VAdd(ScaledPalmV3(hands[1]), ScaledPalmV3(hands[2])), S \div 2)
  ELSE Zero3

\* isCompressing: exactly two hands closer than compressionThreshold
IsCompressing(hands) ==
  /\ Len(hands) = 2
  /\ Lt(Norm3(VSub(ScaledPalmV3(hands[1]), ScaledPalmV3(hands[2]))),
        PHYSICS.compressionThreshold)

compressionRadius == Lit(8, 1)

\* compression branch: inward force, spin term, damping
CompressV3(p, v, mid, t) ==
  LET d3 == VSub(mid, p)
      d == Norm3(d3)
      f == Mul(Sub(compressionRadius, d), PHYSICS.compressionForce)
      u == VDiv(d3, d)
      t10 == Mul(t, 10 * S)
  IN  IF Lt(d, compressionRadius)
      THEN VScale(<< Add(Add(v[1], Mul(u[1], f)),
                         Mul(MathSin(Add(t10, p[2])), PHYSICS.vortexSpin)),
                     Add(v[2], Mul(u[2], f)),
                     Add(Add(v[3], Mul(u[3], f)),
                         Mul(MathCos(Add(t10, p[1])), PHYSICS.vortexSpin)) >>,
                  Lit(85, 100))
      ELSE v

\* silhouette branch: pull toward the assigned smoothed landmark, damping
SilhouetteV3(i, p, v, sl, hands) ==
  LET target == sl[i % (Len(hands) * 21)]
  IN  VScale(VAdd(v, VScale(VSub(target, p), Lit(15, 1000))), Lit(92, 100))

\* attraction to one open hand: a force of constant magnitude attractForce
HandForceV3(p, v, h) ==
  LET d3 == VSub(ScaledPalmV3(h), p)
      d == Norm3(d3)
  IN  IF h.isOpen /\ Lt(d, Lit(8, 1))
      THEN VAdd(v, VScale(VDiv(d3, d), PHYSICS.attractForce))
      ELSE v

RECURSIVE HandsV3(_, _, _, _)
HandsV3(p, v, hands, j) ==
  IF j > Len(hands) THEN v
  ELSE HandsV3(p, HandForceV3(p, v, hands[j]), hands, j + 1)

\* `aiConfig?.shapeVertices ? ... : ...` reads element i % length of the
\* list when the list exists; on an empty list that element is undefined
\* and reading its x throws
ShapeThrowsV3(cfg) ==
  cfg.present /\ cfg.shapeVertices.defined /\ Len(cfg.shapeVertices.v) = 0

HomeTargetV3(i, home, cfg) ==
  IF cfg.present /\ cfg.shapeVertices.defined /\ Len(cfg.shapeVertices.v) > 0
  THEN ShapeVertex(cfg, i) ELSE home

\* default branch: hands, return home, friction
DefaultV3(i, p, v, home, hands, cfg) ==
  LET v1 == HandsV3(p, v, hands, 1)
      v2 == VAdd(v1, VScale(VSub(HomeTargetV3(i, home, cfg), p), PHYSICS.returnHomeForce))
  IN  VScale(v2, PHYSICS.friction)

\* a tick whose branches all act, one after the other
PhysicsSumV3(i, p, v, home, hands, m, cfg, sl, t) ==
  LET v1 == IF IsCompressing(hands) THEN CompressV3(p, v, Midpoint(hands), t) ELSE v
      v2 == IF m = "SILHOUETTE" /\ Len(hands) > 0
            THEN SilhouetteV3(i, p, v1, sl, hands) ELSE v1
  IN  DefaultV3(i, p, v2, home, hands, cfg)

\* normal physics of a particle outside the drawing pool
PhysicsV3(i, p, v, home, hands, m, cfg, sl, t) ==
  IF IsCompressing(hands) THEN CompressV3(p, v, Midpoint(hands), t)
  ELSE IF m = "SILHOUETTE" /\ Len(hands) > 0 THEN SilhouetteV3(i, p, v, sl, hands)
  ELSE DefaultV3(i, p, v, home, hands, cfg)

\* the point a drawing hand stamps: the index tip when pointing, else the palm
DrawTarget(h) ==
  IF h.gesture = "POINTER" THEN LandmarkTarget(h.landmarks[8]) ELSE ScaledPalmV3(h)

\* drawing pool, first part: an active particle decays and jitters, an
\* inactive one is moved to z = -100.  q = [p, v, timer, drawIndex]
PoolDecayV3(q, style, rnd) ==
  IF Gt(q.timer, 0)
  THEN [q EXCEPT !.timer = Mul(q.timer, DRAWING_CONFIG[style].decay),
                 !.p = << Add(q.p[1], Mul(Sub(rnd[1], S \div 2), DRAWING_CONFIG[style].jitter)),
                          Add(q.p[2], Mul(Sub(rnd[2], S \div 2), DRAWING_CONFIG[style].jitter)),
                          Add(q.p[3], Mul(Sub(rnd[3], S \div 2), DRAWING_CONFIG[style].jitter)) >>]
  ELSE [q EXCEPT !.p = <<q.p[1], q.p[2], -100 * S>>]

\* drawing pool, second part: hands.forEach stamps particle i when it is
\* the next index of the ring
RECURSIVE PoolStampV3(_, _, _, _)
PoolStampV3(i, q, hands, j) ==
  IF j > Len(hands) THEN q
  ELSE LET h == hands[j]
           nextIdx == (q.drawIndex + 1) % DrawPool
           q1 == IF (h.isPinching \/ h.gesture = "POINTER") /\ i = nextIdx
                 THEN [p |-> DrawTarget(h), v |-> Zero3, timer |-> S,
                       drawIndex |-> nextIdx]
                 ELSE q
       IN  PoolStampV3(i, q1, hands, j + 1)

\* speed clamp of the latest version
ClampSpeedV3(v) ==
  LET speed == Norm3(v)
  IN  IF Gt(speed, PHYSICS.maxSpeed) THEN VScale(v, Div(PHYSICS.maxSpeed, speed)) ELSE v

\* position advance of the latest version
AdvanceV3(p, v) == VAdd(p, v)

\* new THREE.Color(hands[0].isRight ? 0x00f2ff : 0x7000ff)
HandColor(h) == IF h.isRight THEN Cyan ELSE Violet

\* targetCol of the latest version: drawing pool, compression, or speed hue
TargetColV3(i, speed, hands, m, cfg, style, t) ==
  IF m = "AIR_DRAWING" /\ i < DrawPool
  THEN ColorLerp(DRAWING_CONFIG[style].color, White,
                 Mul(MathSin(Add(Mul(t, 5 * S), i * S)), Lit(2, 10)))
  ELSE IF IsCompressing(hands)
  THEN ColorLerp(White, HandColor(hands[1]), MathSin(Mul(t, 10 * S)))
  ELSE LET c == setHSL(Add(PARTICLE_VISUALS.hueRange.min, Mul(speed, S \div 2)),
                       Lit(9, 10), S \div 2)
       IN  IF cfg.present THEN ColorLerp(c, cfg.primary, S \div 2) ELSE c

\* the largest size the model tells apart: the program's sizes grow on
\* through the float range, the model holds them here
SizeCap == 100 * S
GrowSize(size, factor) == MathMin(Mul(size, factor), SizeCap)

\* sizeArr[i] of the latest version, assigned without smoothing; sizes and
\* sizeArr are the same array
SizeV3(i, size, timer, hands, m, style, audioData) ==
  IF m = "AIR_DRAWING" /\ i < DrawPool THEN Mul(DRAWING_CONFIG[style].size, timer)
  ELSE IF IsCompressing(hands) THEN GrowSize(size, 3 * S)
  ELSE GrowSize(size, Add(S, audioData))

\* the colour and size writes that end the loop body of particle i
VisualsV3(i, st, speed, hands, m, cfg, style, t, audioData) ==
  [st EXCEPT !.colors[i] = SmoothColor(st.colors[i],
                                       TargetColV3(i, speed, hands, m, cfg, style, t)),
             !.sizes[i] = SizeV3(i, st.sizes[i], st.drawTimers[i], hands, m, style,
                                 audioData)]

\* a step that destroys the particle: it leaves the arrays without it
StepDestroyV3(i, st, home, hands, m, cfg, style, sl, t, rnd, audioData) ==
  LET Without(f) == [k \in DOMAIN f \ {i} |-> f[k]]
  IN  [st EXCEPT !.pos = Without(st.pos), !.vel = Without(st.vel),
                 !.colors = Without(st.colors), !.sizes = Without(st.sizes)]

\* one particle, one frame; st = [pos, vel, colors, sizes, drawTimers,
\* drawIndex, threw]
StepV3(i, st, home, hands, m, cfg, style, sl, t, rnd, audioData) ==
  IF m = "AIR_DRAWING" /\ i < DrawPool
  THEN LET q0 == [p |-> st.pos[i], v |-> st.vel[i], timer |-> st.drawTimers[i],
                  drawIndex |-> st.drawIndex]
           q == PoolStampV3(i, PoolDecayV3(q0, style, rnd), hands, 1)
           v1 == ClampSpeedV3(q.v)
       IN  VisualsV3(i, [st EXCEPT !.pos[i] = AdvanceV3(q.p, v1), !.vel[i] = v1,
                                   !.drawTimers[i] = q.timer,
                                   !.drawIndex = q.drawIndex],
                     Norm3(q.v), hands, m, cfg, style, t, audioData)
  ELSE IF ~IsCompressing(hands) /\ ~(m = "SILHOUETTE" /\ Len(hands) > 0)
          /\ ShapeThrowsV3(cfg)
  THEN [st EXCEPT !.threw = TRUE]
  ELSE LET v0 == PhysicsV3(i, st.pos[i], st.vel[i], home[i], hands, m, cfg, sl, t)
           v1 == ClampSpeedV3(v0)
       IN  VisualsV3(i, [st EXCEPT !.pos[i] = AdvanceV3(st.pos[i], v1), !.vel[i] = v1],
                     Norm3(v0), hands, m, cfg, style, t, audioData)

\* the particle loop from index i on; it stops where an exception is thrown
RECURSIVE LoopV3(_, _, _, _, _, _, _, _, _, _, _)
LoopV3(i, st, home, hands, m, cfg, style, sl, t, rnd, audioData) ==
  IF i >= NumParticles \/ st.threw THEN st
  ELSE LoopV3(i + 1,
              StepV3(i, st, home, hands, m, cfg, style, sl, t, rnd[i], audioData),
              home, hands, m, cfg, style, sl, t, rnd, audioData)

(***************************************************************************)
(* Inputs of the model: hands, configurations, random numbers              *)
(***************************************************************************)
\* wrist landmarks, in normalized input coordinates
WristCentre == <<S \div 2, S \div 2, 0>>          \* palm (0, 0, 0)
WristLeft == <<Lit(4, 10), S \div 2, 0>>          \* palm (0.2, 0, 0)
WristRight == <<Lit(7, 10), Lit(3, 10), 0>>       \* palm (-0.4, 0.4, 0)
TipUp == <<S \div 2, Lit(2, 10), Lit(-1, 100)>>

OpenHand == MkHand(WristCentre, TipUp, TRUE, FALSE, "NONE", TRUE)
PeaceHand == MkHand(WristLeft, TipUp, FALSE, FALSE, "PEACE", FALSE)
RockHand == MkHand(WristRight, TipUp, FALSE, TRUE, "ROCK", TRUE)
ThumbHand == MkHand(WristRight, TipUp, TRUE, FALSE, "THUMBS_UP", TRUE)
PinchHand == MkHand(WristRight, TipUp, FALSE, TRUE, "NONE", TRUE)
PointHand == MkHand(WristLeft, TipUp, FALSE, FALSE, "POINTER", FALSE)

\* the hand lists a detection can deliver (numHands is 2)
HandLists ==
  { <<>>, <<OpenHand>>, <<PeaceHand>>, <<PinchHand>>, <<PointHand>>,
    <<OpenHand, PeaceHand>>, <<RockHand, ThumbHand>> }

\* scene configurations the generative service can deliver
ShapeFar == Shape(<< <<Lit(8, 1), Lit(-8, 1), 0>>, <<Lit(-3, 1), Lit(2, 1), Lit(5, 1)>> >>)
Configs ==
  { SceneConfig(Lit(9, 10), Lit(5, 100), Lit(5, 10), S, ShapeFar,
                Magenta, Cyan, Lit(4, 1000)),
    SceneConfig(Lit(98, 100), Lit(1, 100), 0, Lit(3, 10), NoShape,
                Violet, White, 0),
    SceneConfig(Lit(95, 100), Lit(3, 100), Lit(3, 10), Lit(6, 10), Shape(<<>>),
                Cyan, Violet, Lit(2, 1000)) }

\* values of Math.random(), in [0, 1): the three draws of one particle
\* are all at the low end or mixed up to the high end
RandTriples == { <<0, 0, 0>>, <<S - 1, S \div 4, S - 1>> }
NoRand == <<S \div 2, S \div 2, S \div 2>>

\* the random numbers of a frame: one triple for each particle that draws
Rands(users) ==
  { r \in [Particles -> RandTriples \cup {NoRand}] :
      \A i \in Particles : (r[i] = NoRand) <=> (i \notin users) }

\* initial sizes: Math.random() * sizeVariation + baseSize, the draw of
\* particle i being i / 4
SizeOf(i) ==
  Add(Mul((i * S) \div 4, PARTICLE_VISUALS.sizeVariation), PARTICLE_VISUALS.baseSize)

\* initial colour: col.set([0, 0.95, 1]) in versions 1 and 2; the latest
\* version leaves the array at zero
InitialColor == IF version = 3 THEN Zero3 ELSE <<0, Lit(95, 100), S>>

\* home positions: particle i starts at HomeOf(i)
HomeOf(i) == << i * 3 * S, -i * (S + S \div 2), i * 2 * S >>

(***************************************************************************)
(* The frame actions                                                       *)
(***************************************************************************)
\* gsap's tick: every active tween sets its ref
GsapTick ==
  /\ tween' = [k \in DOMAIN tween |-> TweenStep(tween[k])]
  /\ activeFriction' = TweenedRef(activeFriction, tween.friction)
  /\ activeAttract' = TweenedRef(activeAttract, tween.attract)
  /\ activeMaxSpeed' = TweenedRef(activeMaxSpeed, tween.maxSpeed)

FrameDelta == S \div FrameRate

Clock ==
  /\ frames < horizon
  /\ frames' = frames + 1
  /\ time' = time + FrameDelta

FrameV1 ==
  /\ version = 1
  /\ Clock
  /\ GsapTick
  /\ \E r \in {[i \in Particles |->
                  StepV1(pos[i], vel[i], initialPositions[i], handsRef, mode,
                         aiConfig, activeFriction', activeAttract', activeMaxSpeed')]} :
       /\ pos' = [i \in Particles |-> r[i].pos]
       /\ vel' = [i \in Particles |-> r[i].vel]
       /\ colors' = [i \in Particles |->
                       SmoothColor(colors[i], TargetColV1(r[i].currentSpeed, aiConfig))]
  /\ sizes' = [i \in Particles |-> SmoothSize(sizes[i], aiConfig, audioLevel)]
  /\ UNCHANGED << timeScale, chaosFactor, alignmentFactor, smoothedLandmarks,
                  drawTimers, drawIndex, threw >>
  /\ UNCHANGED << version, horizon, handsRef, inputs, initialPositions, propVars,
                  trackerVars, appVars >>

FrameV2 ==
  /\ version = 2
  /\ Clock
  /\ GsapTick
  /\ timeScale' = Blend(timeScale, targetTimeScale(ActiveGesture(handsRef)))
  /\ chaosFactor' = Blend(chaosFactor, targetChaos(ActiveGesture(handsRef)))
  /\ alignmentFactor' = Blend(alignmentFactor, targetAlignment(ActiveGesture(handsRef)))
  /\ \E users \in {IF Gt(chaosFactor', Lit(1, 10)) THEN Particles ELSE {}} :
     \E tbl \in {[i \in Particles |->
                   [x \in (IF i \in users THEN RandTriples ELSE {NoRand}) |->
                      StepV2(i, pos[i], vel[i], initialPositions[i], handsRef, mode,
                             aiConfig, activeFriction', activeAttract', timeScale',
                             chaosFactor', alignmentFactor', x)]]} :
     \E rnd \in Rands(users) :
     \E r \in {[i \in Particles |-> tbl[i][rnd[i]]]} :
       /\ pos' = [i \in Particles |-> r[i].pos]
       /\ vel' = [i \in Particles |-> r[i].vel]
       /\ colors' = [i \in Particles |->
                       SmoothColor(colors[i], TargetColV2(r[i].currentSpeed, aiConfig))]
  /\ sizes' = [i \in Particles |-> SmoothSize(sizes[i], aiConfig, audioLevel)]
  /\ UNCHANGED << smoothedLandmarks, drawTimers, drawIndex, threw >>
  /\ UNCHANGED << version, horizon, handsRef, inputs, initialPositions, propVars,
                  trackerVars, appVars >>

\* the pool particles that draw random numbers this frame
JitterUsers ==
  IF mode = "AIR_DRAWING"
  THEN {i \in Particles : i < DrawPool /\ Gt(drawTimers[i], 0)}
  ELSE {}

FrameV3 ==
  /\ version = 3
  /\ Clock
  /\ smoothedLandmarks' = SmoothLandmarks(smoothedLandmarks, handsRef)
  /\ \E rnd \in Rands(JitterUsers) :
     \E st \in {LoopV3(0, [pos |-> pos, vel |-> vel, colors |-> colors,
                           sizes |-> sizes, drawTimers |-> drawTimers,
                           drawIndex |-> drawIndex, threw |-> FALSE],
                       initialPositions, handsRef, mode, aiConfig, drawStyle,
                       smoothedLandmarks', time', rnd, audioLevel)} :
       /\ pos' = st.pos
       /\ vel' = st.vel
       /\ colors' = st.colors
       /\ sizes' = st.sizes
       /\ drawTimers' = st.drawTimers
       /\ drawIndex' = st.drawIndex
       /\ threw' = st.threw
  /\ UNCHANGED << activeFriction, activeAttract, activeMaxSpeed, tween,
                  timeScale, chaosFactor, alignmentFactor >>
  /\ UNCHANGED << version, horizon, handsRef, inputs, initialPositions, propVars,
                  trackerVars, appVars >>

(***************************************************************************)
(* The props of Particles change: the parent stores a detection result in  *)
(* handsRef, or re-renders with another mode, configuration or style.      *)
(***************************************************************************)
Input ==
  /\ inputs < MaxInputs
  /\ inputs' = inputs + 1

SetHands ==
  /\ Input
  /\ \E hs \in HandLists : handsRef' = hs
  /\ UNCHANGED << version, horizon, initialPositions, simVars, propVars, trackerVars, appVars >>

SetMode ==
  /\ Input
  /\ \E m \in AppMode : mode' = m
  /\ UNCHANGED << version, horizon, handsRef, initialPositions, simVars, aiConfig,
                  drawStyle, trackerVars, appVars >>

SetDrawStyle ==
  /\ Input
  /\ \E s \in DrawingStyle : drawStyle' = s
  /\ UNCHANGED << version, horizon, handsRef, initialPositions, simVars, aiConfig,
                  mode, trackerVars, appVars >>

\* the effect on [aiConfig] of versions 1 and 2: a configuration starts a
\* tween of each ref toward its value; null starts none
ConfigEffect(cfg) ==
  IF cfg.present /\ version \in {1, 2}
  THEN tween' = [ friction |-> StartTween(activeFriction, cfg.friction),
                  attract  |-> StartTween(activeAttract, cfg.attractForce),
                  maxSpeed |-> IF version = 1
                               THEN StartTween(activeMaxSpeed, cfg.maxSpeed)
                               ELSE tween.maxSpeed ]
  ELSE tween' = tween

SetConfig ==
  /\ Input
  /\ \E c \in Configs \cup {NullConfig} :
       /\ c # aiConfig
       /\ aiConfig' = c
       /\ ConfigEffect(c)
  /\ UNCHANGED << version, horizon, handsRef, initialPositions, mode, drawStyle,
                  trackerVars, appVars,
                  pos, vel, activeFriction, activeAttract, activeMaxSpeed,
                  timeScale, chaosFactor, alignmentFactor, smoothedLandmarks,
                  drawTimers, drawIndex, threw, time, frames, colors, sizes >>

(***************************************************************************)
(* App (App.tsx 28-185) and HandTracker (services/handTracker)             *)
(***************************************************************************)
\* detectLoop callbacks in one behaviour of the App specification
MaxLoops == 4
\* video frames delivered in one behaviour of the App specification
MaxVideoFrames == 3

\* milliseconds between two detectLoop callbacks
LoopDelays == {17, 600}
\* audio levels the analyser delivers
AudioLevels == {0, S \div 2}

swipeThreshold == Lit(15, 100)
cooldownMs == 1000
uiThrottleMs == 50

\* the mode the running detectLoop sees: the loop started by the mount
\* effect is the callback of the first render and reschedules itself, so
\* its cycleMode and handleModeChange read the `mode` of that render
closureMode == "PLAYGROUND"

\* JavaScript's %: the sign of the dividend
JsRem(a, b) == Sgn(a) * (Abs(a) % b)

IndexOf(seq, x) == CHOOSE k \in 1 .. Len(seq) : seq[k] = x

\* cycleMode(direction): the mode handed to handleModeChange
CycleTarget(m, direction) ==
  LET currentIndex == IndexOf(MODES, m) - 1
      nextIndex == JsRem(currentIndex + direction, Len(MODES))
  IN  MODES[(IF nextIndex < 0 THEN Len(MODES) - 1 ELSE nextIndex) + 1]

\* onloadedmetadata: the tracker is initialised and the loop is started
TrackerInit ==
  /\ ~handLandmarker
  /\ handLandmarker' = TRUE
  /\ UNCHANGED << version, horizon, handsRef, inputs, initialPositions, simVars,
                  propVars, videoTime, lastVideoTime, appVars >>

\* the camera delivers a video frame
VideoFrame ==
  /\ videoTime < MaxVideoFrames
  /\ videoTime' = videoTime + 1
  /\ UNCHANGED << version, horizon, handsRef, inputs, initialPositions, simVars,
                  propVars, handLandmarker, lastVideoTime, appVars >>

\* HandTracker.detect(): null unless the video frame advanced
DetectsNewFrame == handLandmarker /\ lastVideoTime # videoTime

\* a loop that checks for swipes whatever the cooldown
CooldownIgnored(t) == TRUE

\* now > gestureCooldownRef.current
CooldownOver(t) == t > gestureCooldown

\* the direction of the swipe detectLoop sees in results: -1, 1, or 0
SwipeDirection(results, t) ==
  IF Len(results) = 2 /\ CooldownOver(t)
  THEN LET dx1 == results[1].palm[1] - lastHandX[1]
           dx2 == results[2].palm[1] - lastHandX[2]
       IN  IF dx1 > swipeThreshold /\ dx2 > swipeThreshold THEN -1
           ELSE IF dx1 < -swipeThreshold /\ dx2 < -swipeThreshold THEN 1
           ELSE 0
  ELSE 0

\* handleModeChange(newMode) as the running loop calls it
HandleModeChange(newMode) ==
  IF newMode = closureMode
  THEN UNCHANGED << showAiInput, pendingModes >>
  ELSE /\ showAiInput' = (showAiInput \/ newMode = "AI_ORACLE")
       /\ pendingModes' = Append(pendingModes, newMode)

\* detectLoop with a detection result
DetectResult(results, t) ==
  /\ handsRef' = results
  /\ lastVideoTime' = videoTime
  /\ IF Len(results) = 2 /\ CooldownOver(t)
     THEN /\ lastHandX' = <<results[1].palm[1], results[2].palm[1]>>
          /\ IF SwipeDirection(results, t) # 0
             THEN /\ HandleModeChange(CycleTarget(closureMode, SwipeDirection(results, t)))
                  /\ gestureCooldown' = t + cooldownMs
             ELSE UNCHANGED << showAiInput, pendingModes, gestureCooldown >>
     ELSE /\ lastHandX' = IF Len(results) = 1
                          THEN <<results[1].palm[1], lastHandX[2]>>
                          ELSE lastHandX
          /\ UNCHANGED << showAiInput, pendingModes, gestureCooldown >>
  /\ IF t - lastUiUpdate > uiThrottleMs
     THEN uiHands' = results /\ lastUiUpdate' = t
     ELSE UNCHANGED << uiHands, lastUiUpdate >>

\* detectLoop when detect() returned null
DetectNull ==
  /\ handsRef' = <<>>
  /\ UNCHANGED << lastVideoTime, lastHandX, gestureCooldown, showAiInput,
                  pendingModes, uiHands, lastUiUpdate >>

\* one requestAnimationFrame callback of detectLoop
DetectLoop ==
  /\ handLandmarker
  /\ loops < MaxLoops
  /\ loops' = loops + 1
  /\ \E d \in LoopDelays : now' = now + d
  /\ IF DetectsNewFrame
     THEN \E results \in HandLists : DetectResult(results, now')
     ELSE DetectNull
  /\ \E a \in AudioLevels : audioLevel' = a
  /\ UNCHANGED << version, horizon, inputs, initialPositions, simVars, propVars,
                  handLandmarker, videoTime, oracleVars >>

\* the fade-out tween of handleModeChange completes: setMode(newMode)
ModeTweenComplete ==
  /\ Len(pendingModes) > 0
  /\ mode' = Head(pendingModes)
  /\ pendingModes' = Tail(pendingModes)
  /\ UNCHANGED << version, horizon, handsRef, inputs, initialPositions, simVars,
                  aiConfig, drawStyle, trackerVars, now, loops, lastHandX,
                  gestureCooldown, lastUiUpdate, uiHands, audioLevel, showAiInput,
                  oracleVars >>

(***************************************************************************)
(* App: the oracle prompt (App.tsx 94-137, 191-224, 275-287)               *)
(***************************************************************************)
\* generateOracleWorld calls that send a request in one behaviour
MaxRequests == 3

\* the text of the prompt input: empty, or something
Prompts == {"", "a ghostly oak tree"}

\* the variables of the detection loop, which the prompt does not touch
loopVars == << now, loops, lastHandX, gestureCooldown, lastUiUpdate, uiHands,
               audioLevel >>

\* generateOracleWorld up to its await: nothing without a prompt, else
\* setIsAiLoading(true) and the request is sent
GenerateOracleWorld ==
  IF aiPrompt = ""
  THEN UNCHANGED << isAiLoading, inFlight, requests >>
  ELSE /\ isAiLoading' = TRUE
       /\ inFlight' = inFlight + 1
       /\ requests' = requests + 1

\* the user clicks AI_ORACLE in the mode menu: handleModeChange of the
\* current render
MenuOracle ==
  /\ mode # "AI_ORACLE"
  /\ pendingModes = <<>>
  /\ showAiInput' = TRUE
  /\ pendingModes' = Append(pendingModes, "AI_ORACLE")
  /\ UNCHANGED << version, horizon, handsRef, inputs, initialPositions, simVars,
                  propVars, trackerVars, loopVars, oracleVars >>

\* onChange of the prompt input
TypePrompt ==
  /\ showAiInput
  /\ \E p \in Prompts : p # aiPrompt /\ aiPrompt' = p
  /\ UNCHANGED << version, horizon, handsRef, inputs, initialPositions, simVars,
                  propVars, trackerVars, loopVars, showAiInput, pendingModes,
                  isAiLoading, inFlight, requests >>

\* onKeyDown of the prompt input: Enter calls generateOracleWorld
PressEnter ==
  /\ showAiInput
  /\ requests < MaxRequests
  /\ GenerateOracleWorld
  /\ UNCHANGED << version, horizon, handsRef, inputs, initialPositions, simVars,
                  propVars, trackerVars, loopVars, showAiInput, pendingModes,
                  aiPrompt >>

\* the submit button, disabled while isAiLoading or without a prompt
ClickManifest ==
  /\ showAiInput
  /\ ~(isAiLoading \/ aiPrompt = "")
  /\ requests < MaxRequests
  /\ GenerateOracleWorld
  /\ UNCHANGED << version, horizon, handsRef, inputs, initialPositions, simVars,
                  propVars, trackerVars, loopVars, showAiInput, pendingModes,
                  aiPrompt >>

\* a request resolves with a configuration: setAiConfig, setShowAiInput(false)
\* and the finally block
OracleResolves ==
  /\ inFlight > 0
  /\ \E c \in Configs : aiConfig' = c /\ ConfigEffect(c)
  /\ showAiInput' = FALSE
  /\ isAiLoading' = FALSE
  /\ inFlight' = inFlight - 1
  /\ UNCHANGED << version, horizon, handsRef, inputs, initialPositions, mode,
                  drawStyle, trackerVars, loopVars, pendingModes, aiPrompt, requests,
                  pos, vel, activeFriction, activeAttract, activeMaxSpeed,
                  timeScale, chaosFactor, alignmentFactor, smoothedLandmarks,
                  drawTimers, drawIndex, threw, time, frames, colors, sizes >>

\* a request is rejected, or its text does not parse: the catch block logs,
\* then the finally block
OracleFails ==
  /\ inFlight > 0
  /\ isAiLoading' = FALSE
  /\ inFlight' = inFlight - 1
  /\ UNCHANGED << version, horizon, handsRef, inputs, initialPositions, simVars,
                  propVars, trackerVars, loopVars, showAiInput, pendingModes,
                  aiPrompt, requests >>

\* the Return button of the prompt overlay
CloseInput ==
  /\ showAiInput
  /\ showAiInput' = FALSE
  /\ UNCHANGED << version, horizon, handsRef, inputs, initialPositions, simVars,
                  propVars, trackerVars, loopVars, pendingModes, oracleVars >>

(***************************************************************************)
(* Initial state: after the first render of App and Particles              *)
(***************************************************************************)
InitScene ==
  /\ mode = "PLAYGROUND"
  /\ aiConfig = NullConfig
  /\ drawStyle = "NEON"
  /\ handsRef = <<>>
  /\ time = 0
  /\ frames = 0
  /\ inputs = 0
  /\ activeFriction = PHYSICS.friction
  /\ activeAttract = PHYSICS.attractForce
  /\ activeMaxSpeed = PHYSICS.maxSpeed
  /\ tween = [friction |-> NoTween, attract |-> NoTween, maxSpeed |-> NoTween]
  /\ timeScale = S
  /\ chaosFactor = 0
  /\ alignmentFactor = 0
  /\ smoothedLandmarks = [k \in 0 .. 41 |-> Zero3]
  /\ drawTimers = [i \in Particles |-> 0]
  /\ drawIndex = 0
  /\ threw = FALSE
  /\ colors = [i \in Particles |-> InitialColor]
  /\ sizes = [i \in Particles |-> SizeOf(i)]

\* the particles start at their home positions, at rest
InitSim ==
  /\ InitScene
  /\ initialPositions = [i \in Particles |-> HomeOf(i)]
  /\ pos = initialPositions
  /\ vel = [i \in Particles |-> Zero3]

InitTracker ==
  /\ handLandmarker = FALSE
  /\ videoTime = 0
  /\ lastVideoTime = -1

InitApp ==
  /\ now = 0
  /\ loops = 0
  /\ lastHandX = <<0, 0>>
  /\ gestureCooldown = 0
  /\ lastUiUpdate = 0
  /\ uiHands = <<>>
  /\ audioLevel = 0
  /\ showAiInput = FALSE
  /\ pendingModes = <<>>
  /\ isAiLoading = FALSE
  /\ aiPrompt = ""
  /\ inFlight = 0
  /\ requests = 0

Init ==
  /\ version \in {1, 2, 3}
  /\ horizon = MaxFrames
  /\ InitSim
  /\ InitTracker
  /\ InitApp

Next ==
  \/ FrameV1
  \/ FrameV2
  \/ FrameV3
  \/ SetHands
  \/ SetMode
  \/ SetDrawStyle
  \/ SetConfig

Spec == Init /\ [][Next]_vars

\* App and HandTracker alone: the detection loop and the camera
InitDetect ==
  /\ version = 3
  /\ horizon = 0
  /\ InitSim
  /\ InitTracker
  /\ InitApp

NextDetect ==
  \/ TrackerInit
  \/ VideoFrame
  \/ DetectLoop
  \/ ModeTweenComplete

SpecDetect == InitDetect /\ [][NextDetect]_vars

\* App alone: the oracle prompt and its requests
InitOracle ==
  /\ version \in {1, 2, 3}
  /\ horizon = 0
  /\ InitSim
  /\ InitTracker
  /\ InitApp

NextOracle ==
  \/ MenuOracle
  \/ ModeTweenComplete
  \/ TypePrompt
  \/ PressEnter
  \/ ClickManifest
  \/ OracleResolves
  \/ OracleFails
  \/ CloseInput

SpecOracle == InitOracle /\ [][NextOracle]_vars

(***************************************************************************)
(* Scenario: the blender.  The gesture version under changing hands and    *)
(* scene configurations.                                                   *)
(***************************************************************************)
InitBlend ==
  /\ version = 2
  /\ horizon = MaxFrames
  /\ InitSim
  /\ InitTracker
  /\ InitApp

\* the hand lists that move the blender's targets
GestureLists == { <<>>, <<PeaceHand>>, <<ThumbHand>>, <<RockHand, ThumbHand>> }

\* the detection delivers another gesture
ShowGesture ==
  /\ Input
  /\ \E hs \in GestureLists : handsRef' = hs
  /\ UNCHANGED << version, horizon, initialPositions, simVars, propVars, trackerVars, appVars >>

NextBlend ==
  \/ FrameV2
  \/ ShowGesture
  \/ SetConfig

SpecBlend == InitBlend /\ [][NextBlend]_vars

(***************************************************************************)
(* Scenario: the PEACE gesture is shown to the gesture version and held.   *)
(***************************************************************************)
\* two seconds of frames
PeaceTicks == 2 * FrameRate
PeaceHorizon == PeaceTicks + FrameRate \div 2

\* a PEACE hand whose scaled palm (2.5, -1.5, 2) is half a unit from the
\* home of particle 1
WristClose == <<Lit(25, 100), Lit(75, 100), Lit(-8, 100)>>
PeaceClose == MkHand(WristClose, TipUp, FALSE, FALSE, "PEACE", FALSE)

\* hand lists whose first hand shows PEACE
PeaceLists ==
  { <<PeaceHand>>, <<PeaceHand, OpenHand>>, <<PeaceHand, PinchHand>>, <<PeaceClose>> }

InitPeace ==
  /\ version = 2
  /\ horizon = PeaceHorizon
  /\ InitSim
  /\ InitTracker
  /\ InitApp

\* the detection delivers the PEACE hand before the first frame
ShowPeace ==
  /\ inputs = 0
  /\ frames = 0
  /\ inputs' = 1
  /\ \E hs \in PeaceLists : handsRef' = hs
  /\ UNCHANGED << version, horizon, initialPositions, simVars, propVars, trackerVars, appVars >>

\* a frame of the gesture version while the gesture is held
FramePeace ==
  /\ ActiveGesture(handsRef) = "PEACE"
  /\ FrameV2

NextPeace ==
  \/ ShowPeace
  \/ FramePeace

SpecPeace == InitPeace /\ [][NextPeace]_vars

(***************************************************************************)
(* Scenario: idle.  No hands, PLAYGROUND, no configuration; the particles  *)
(* start at home at rest, and only the audio level changes.                *)
(***************************************************************************)
IdleTicks == 2 * FrameRate

InitIdle ==
  /\ version \in {1, 2, 3}
  /\ horizon = IdleTicks
  /\ InitSim
  /\ InitTracker
  /\ InitApp

\* the parent re-renders with another audio level, at a whole second
SetAudio ==
  /\ Input
  /\ frames % FrameRate = 0
  /\ \E a \in AudioLevels : audioLevel' = a
  /\ UNCHANGED << version, horizon, handsRef, initialPositions, simVars, propVars,
                  trackerVars, now, loops, lastHandX, gestureCooldown,
                  lastUiUpdate, uiHands, showAiInput, pendingModes, oracleVars >>

NextIdle ==
  \/ FrameV1
  \/ FrameV2
  \/ FrameV3
  \/ SetAudio

SpecIdle == InitIdle /\ [][NextIdle]_vars

(***************************************************************************)
(* Scenario: return home.  No hands, PLAYGROUND, no configuration, no      *)
(* audio; the particles start displaced anywhere inside the boundary.      *)
(***************************************************************************)
ConvergeTicks == 10 * FrameRate
HomeHorizon == ConvergeTicks + FrameRate

\* where the particles start
StartLayouts ==
  { [i \in Particles |-> HomeOf(i)],
    [i \in Particles |-> VAdd(HomeOf(i), <<S \div 2, 0, 0>>)],
    [i \in Particles |-> <<40 * S, -40 * S, (40 - i) * S>>],
    [i \in Particles |-> <<-40 * S, 25 * S, -i * S>>] }

\* the velocity they start with
StartVels == { Zero3, <<Lit(3, 10), Lit(-4, 10), 0>> }

InitHome ==
  /\ version \in {1, 2, 3}
  /\ horizon = HomeHorizon
  /\ InitScene
  /\ initialPositions = [i \in Particles |-> HomeOf(i)]
  /\ pos \in StartLayouts
  /\ \E v \in StartVels : vel = [i \in Particles |-> v]
  /\ InitTracker
  /\ InitApp

NextHome ==
  \/ FrameV1
  \/ FrameV2
  \/ FrameV3

SpecHome == InitHome /\ [][NextHome]_vars

(***************************************************************************)
(* Scenario: attraction.  An open hand appears with its scaled palm at the *)
(* origin; every particle is at rest at distance 5 from it.                *)
(***************************************************************************)
\* half a second of frames
AttractTicks == FrameRate \div 2
AttractHorizon == AttractTicks + 2

\* points at distance 5 from the origin
Ring == << <<5 * S, 0, 0>>, <<3 * S, -4 * S, 0>>, <<0, 3 * S, 4 * S>>,
           <<-3 * S, 0, 4 * S>>, <<0, -5 * S, 0>> >>
RingLayouts ==
  { [i \in Particles |-> Ring[((i + k) % Len(Ring)) + 1]] : k \in 0 .. Len(Ring) - 1 }

\* home positions elsewhere in the cube of initial positions
OtherHomes ==
  { [i \in Particles |-> HomeOf(i)], [i \in Particles |-> <<-6 * S, 0, 0>>] }

InitAttract ==
  /\ version \in {1, 2, 3}
  /\ horizon = AttractHorizon
  /\ InitScene
  /\ pos \in RingLayouts
  /\ initialPositions \in {pos} \cup OtherHomes
  /\ vel = [i \in Particles |-> Zero3]
  /\ InitTracker
  /\ InitApp

\* the detection delivers the open hand before the first frame
ShowOpenHand ==
  /\ inputs = 0
  /\ frames = 0
  /\ inputs' = 1
  /\ handsRef' = <<OpenHand>>
  /\ UNCHANGED << version, horizon, initialPositions, simVars, propVars, trackerVars, appVars >>

\* a frame of any version while the hand is shown
FrameAttract ==
  /\ handsRef = <<OpenHand>>
  /\ (FrameV1 \/ FrameV2 \/ FrameV3)

NextAttract ==
  \/ ShowOpenHand
  \/ FrameAttract

SpecAttract == InitAttract /\ [][NextAttract]_vars

(***************************************************************************)
(* Scenario: compression.  Two hands appear with their scaled palms 2      *)
(* units apart, below compressionThreshold; the particles are at rest at   *)
(* and around the midpoint of a pair of hands.                             *)
(***************************************************************************)
\* ten frames
CompressTicks == FrameRate \div 6
CompressHorizon == CompressTicks + 2

\* palms (0.1, 0, 0) and (-0.1, 0, 0): scaled (1, 0, 0) and (-1, 0, 0)
CentrePair ==
  << MkHand(<<Lit(45, 100), S \div 2, 0>>, TipUp, TRUE, FALSE, "NONE", FALSE),
     MkHand(<<Lit(55, 100), S \div 2, 0>>, TipUp, FALSE, FALSE, "NONE", TRUE) >>
\* palms (0.4, 0.2, 0) and (0.2, 0.2, 0): scaled (4, 1.6, 0) and (2, 1.6, 0)
SidePair ==
  << MkHand(<<Lit(3, 10), Lit(4, 10), 0>>, TipUp, FALSE, FALSE, "NONE", TRUE),
     MkHand(<<Lit(4, 10), Lit(4, 10), 0>>, TipUp, FALSE, TRUE, "NONE", FALSE) >>
ClosePairs == { CentrePair, SidePair }

\* where a particle starts, relative to the midpoint of a pair
MidOffsets == << Zero3, <<S, S \div 2, 0>>, <<0, -2 * S, S>> >>
MidLayouts ==
  { [i \in Particles |-> VAdd(Midpoint(hs), MidOffsets[((i + k) % Len(MidOffsets)) + 1])] :
      hs \in ClosePairs, k \in 0 .. Len(MidOffsets) - 1 }

InitCompress ==
  /\ version = 3
  /\ horizon = CompressHorizon
  /\ InitScene
  /\ pos \in MidLayouts
  /\ initialPositions = pos
  /\ vel = [i \in Particles |-> Zero3]
  /\ InitTracker
  /\ InitApp

\* the parent renders a mode before the first frame
StartMode ==
  /\ inputs = 0
  /\ frames = 0
  /\ inputs' = 1
  /\ \E m \in AppMode \ {mode} : mode' = m
  /\ UNCHANGED << version, horizon, handsRef, initialPositions, simVars, aiConfig,
                  drawStyle, trackerVars, appVars >>

\* the detection delivers the two hands before the first frame
ShowTwoHands ==
  /\ handsRef = <<>>
  /\ frames = 0
  /\ \E hs \in ClosePairs : handsRef' = hs
  /\ UNCHANGED << version, horizon, inputs, initialPositions, simVars, propVars,
                  trackerVars, appVars >>

\* a frame of the latest version while the two hands are held
FrameCompress ==
  /\ handsRef \in ClosePairs
  /\ FrameV3

NextCompress ==
  \/ StartMode
  \/ ShowTwoHands
  \/ FrameCompress

SpecCompress == InitCompress /\ [][NextCompress]_vars

(***************************************************************************)
(* Scenario: the mode gate.  No hands, no configuration; the particles     *)
(* start at rest, away from home or at home, and the parent renders any    *)
(* mode before the first frame.                                            *)
(***************************************************************************)
GateTicks == FrameRate \div 6

InitGate ==
  /\ version \in {1, 2, 3}
  /\ horizon = GateTicks
  /\ InitScene
  /\ initialPositions = [i \in Particles |-> HomeOf(i)]
  /\ pos \in StartLayouts
  /\ vel = [i \in Particles |-> Zero3]
  /\ InitTracker
  /\ InitApp

NextGate ==
  \/ StartMode
  \/ FrameV1
  \/ FrameV2
  \/ FrameV3

SpecGate == InitGate /\ [][NextGate]_vars

(***************************************************************************)
(* Scenario: the branches of the latest version.  Hands come and go and    *)
(* the mode changes: no hand, one closed hand, one open hand, or an open   *)
(* and a closed hand 2 units apart.                                        *)
(***************************************************************************)
InitBranch ==
  /\ version = 3
  /\ horizon = MaxFrames
  /\ InitSim
  /\ InitTracker
  /\ InitApp

BranchLists == { <<>>, <<PeaceHand>>, <<OpenHand>>, <<OpenHand, PeaceHand>> }

\* the detection delivers other hands
ShowHands ==
  /\ Input
  /\ \E hs \in BranchLists \ {handsRef} : handsRef' = hs
  /\ UNCHANGED << version, horizon, initialPositions, simVars, propVars, trackerVars, appVars >>

NextBranch ==
  \/ FrameV3
  \/ ShowHands
  \/ SetMode

SpecBranch == InitBranch /\ [][NextBranch]_vars

(***************************************************************************)
(* Claims                                                                  *)
(***************************************************************************)
\* C1: after every frame, every position component of every particle is at
\* most boundaryLimit in absolute value, in every version of the tick and
\* in every mode.  (Stated here for the finite components only, so that it
\* is the boundary policy alone, not a NaN, that decides it.)
C1_BoundaryInvariant ==
  \A i \in Particles : \A a \in Axes :
    Finite(pos[i][a]) => Abs(pos[i][a]) <= PHYSICS.boundaryLimit

\* C2: the hand list the simulation reads changes only with a new
\* detection result; a detectLoop callback whose detect() returned null
\* (the video frame did not advance) leaves handsRef.current as it was.
C2_HandsKeptBetweenDetections ==
  [][handsRef' # handsRef => lastVideoTime' # lastVideoTime]_vars

\* C3: after every frame every position and velocity component of every
\* particle is a finite number.
C3_AlwaysFinite ==
  \A i \in Particles : VFinite(pos[i]) /\ VFinite(vel[i])

\* one tick of a scalar x -> x2 with target t closes the gap by the ratio
\* 0.95 (to the rounding of one multiplication), stays on its side of the
\* target and does not arrive at a target it was away from
ShrinksByRatio(x, x2, t) ==
  /\ Abs(100 * Abs(x2 - t) - 95 * Abs(x - t)) <= 100
  /\ Sgn(x2 - t) \in {0, Sgn(x - t)}
  /\ x # t => x2 # t

\* one tick of a scalar x -> x2 with target t moves it no farther from the
\* target, keeps it on its side and does not arrive in the first tick
MovesToward(x, x2, t, first) ==
  /\ Abs(x2 - t) <= Abs(x - t)
  /\ Sgn(x2 - t) \in {0, Sgn(x - t)}
  /\ (first /\ x # t) => x2 # t

LerpScalarsShrink ==
  /\ ShrinksByRatio(timeScale, timeScale', targetTimeScale(ActiveGesture(handsRef)))
  /\ ShrinksByRatio(chaosFactor, chaosFactor', targetChaos(ActiveGesture(handsRef)))
  /\ ShrinksByRatio(alignmentFactor, alignmentFactor',
                    targetAlignment(ActiveGesture(handsRef)))

\* C4 as stated: on every tick every blended scalar, friction and
\* attraction strength under a scene configuration included, closes its gap
\* to the target by the constant ratio 0.95, never passes the target and
\* never reaches a changed target in one tick.
C4_AllScalarsConstantRatio ==
  [][FrameV2 =>
       /\ LerpScalarsShrink
       /\ tween.friction.active =>
            ShrinksByRatio(activeFriction, activeFriction', tween.friction.to)
       /\ tween.attract.active =>
            ShrinksByRatio(activeAttract, activeAttract', tween.attract.to)]_vars

\* C4 amended: time-scale, chaos and alignment close their gap by the
\* constant ratio 0.95 on every tick, never pass the target and never reach
\* a changed target in one tick; friction and attraction strength follow
\* the two-second tween instead: every tick moves them no farther from the
\* configured value, never past it, and the first tick does not arrive.
C4_LerpRatioTweenMonotone ==
  [][FrameV2 =>
       /\ LerpScalarsShrink
       /\ tween.friction.active =>
            MovesToward(activeFriction, activeFriction', tween.friction.to,
                        tween.friction.elapsed = 0)
       /\ tween.attract.active =>
            MovesToward(activeAttract, activeAttract', tween.attract.to,
                        tween.attract.elapsed = 0)]_vars

\* C4 witness: the gesture version has blended the time-scale toward the
\* PEACE target for two ticks while a configuration's friction tween runs
C4_Witness ==
  /\ version = 2
  /\ frames >= 2
  /\ ActiveGesture(handsRef) = "PEACE"
  /\ timeScale < S /\ timeScale > targetTimeScale("PEACE")
  /\ tween.friction.active /\ tween.friction.elapsed >= 1
  /\ activeFriction # tween.friction.to

\* the table of the blender's targets: <<time-scale, chaos, alignment>>
TableRow(g) ==
  CASE g = "PEACE" -> <<Lit(8, 100), 0, 0>>
    [] g = "ROCK" -> <<S, S, 0>>
    [] g = "THUMBS_UP" -> <<S, 0, S>>
    [] OTHER -> <<S, 0, 0>>

TableGestures == {"PEACE", "ROCK", "THUMBS_UP"}

\* the gesture of the first hand that shows a gesture of the table
FirstMatching(hands) ==
  LET m == {j \in 1 .. Len(hands) : hands[j].gesture \in TableGestures}
  IN  IF m = {} THEN "NONE"
      ELSE hands[CHOOSE j \in m : \A k \in m : j <= k].gesture

BlendsToward(row) ==
  /\ timeScale' = Lerp(timeScale, row[1], Lit(5, 100))
  /\ chaosFactor' = Lerp(chaosFactor, row[2], Lit(5, 100))
  /\ alignmentFactor' = Lerp(alignmentFactor, row[3], Lit(5, 100))

\* C5: each tick the three blended scalars move toward the table row of the
\* winning gesture, and with several hands the winner is the gesture of the
\* first hand that matches a gesture of the table.
C5_FirstMatchingHandWins ==
  [][FrameV2 => BlendsToward(TableRow(FirstMatching(handsRef)))]_vars

\* C5, the part the code keeps: the row is that of the gesture of the first
\* hand of the list, whatever the other hands show.
C5_FirstHandRow ==
  [][FrameV2 =>
       BlendsToward(TableRow(IF Len(handsRef) = 0 THEN "NONE"
                             ELSE handsRef[1].gesture))]_vars

\* the position of particle i advanced on axis a by velocity * time-scale
Advanced(i, a) == pos'[i][a] = Add(pos[i][a], Mul(vel'[i][a], timeScale'))

Near(p, q, eps) == VFinite(p) /\ VFinite(q) /\ Norm3(VSub(p, q)) <= eps

\* C7: with no hands, PLAYGROUND, no configuration and the particles
\* started at home at rest, after 120 ticks every particle is within 0.01 of
\* its home position.
C7_IdleSettle ==
  frames = IdleTicks =>
    \A i \in Particles : Near(pos[i], initialPositions[i], Lit(1, 100))

\* C7 witness: 120 idle ticks have run, with a particle whose home is not
\* the origin and after a change of the audio level
C7_Witness ==
  /\ frames = IdleTicks
  /\ handsRef = <<>> /\ mode = "PLAYGROUND" /\ aiConfig = NullConfig
  /\ audioLevel > 0
  /\ \E i \in Particles : initialPositions[i] # Zero3 /\ pos[i] = initialPositions[i]

\* C8: started anywhere inside the boundary, with no hands, PLAYGROUND, no
\* configuration, every particle is within 0.01 of its home position after
\* 600 ticks and on every tick after that.
C8_ConvergesHome ==
  frames >= ConvergeTicks =>
    \A i \in Particles : Near(pos[i], initialPositions[i], Lit(1, 100))

\* C8 witness: more than 600 ticks have run and a particle that did not
\* start at home (it is not exactly there) is within 0.01 of it
C8_Witness ==
  /\ frames > ConvergeTicks
  /\ \E i \in Particles :
       /\ pos[i] # initialPositions[i]
       /\ Near(pos[i], initialPositions[i], Lit(1, 100))

\* a frame of any version of the tick
AnyFrame == FrameV1 \/ FrameV2 \/ FrameV3

HomePull(i) ==
  Mul(Norm3(VSub(initialPositions[i], pos[i])), PHYSICS.returnHomeForce)

\* rounding allowance of a norm of size n (four significant digits)
NormSlack(n) == 5 + n \div 1000

HandDistance(i) == Norm3(pos[i])
Approaches(i) == Norm3(pos'[i]) < Norm3(pos[i])

Cross(u, w) ==
  << Sub(Mul(u[2], w[3]), Mul(u[3], w[2])),
     Sub(Mul(u[3], w[1]), Mul(u[1], w[3])),
     Sub(Mul(u[1], w[2]), Mul(u[2], w[1])) >>

\* particle i has a velocity with a nonzero component across the line
\* from it to the midpoint of the hands
Tangential(i) ==
  /\ VFinite(vel[i])
  /\ VFinite(pos[i])
  /\ Cross(vel[i], VSub(Midpoint(handsRef), pos[i])) # Zero3

\* the particles that started at the midpoint of the two hands held
AtMidpoint == {i \in Particles : initialPositions[i] = Midpoint(handsRef)}

\* C11: with two hands whose scaled palms are 2 units apart, a particle
\* that started at the hands' midpoint has acquired a nonzero tangential
\* (non-radial) velocity component when 10 ticks have run.
C11_CompressionSpin ==
  (IsCompressing(handsRef) /\ frames = CompressTicks) =>
    \A i \in AtMidpoint : Tangential(i)

\* on none of the first ten ticks of the compression does a particle that
\* started at the midpoint, outside the drawing pool, have a finite velocity
C11_MidpointNeverFinite ==
  (IsCompressing(handsRef) /\ frames \in 1 .. CompressTicks) =>
    \A i \in AtMidpoint :
      ~(mode = "AIR_DRAWING" /\ i < DrawPool) => ~VFinite(vel[i])

\* a particle that started beside the midpoint, outside the drawing pool,
\* has a tangential component after the first tick and keeps it
C11_BesideMidpointSpins ==
  (IsCompressing(handsRef) /\ frames \in 1 .. CompressTicks) =>
    \A i \in Particles \ AtMidpoint :
      ~(mode = "AIR_DRAWING" /\ i < DrawPool) => Tangential(i)

\* a tick: one useFrame callback has run
Tick == frames' = frames + 1

\* the largest correction the alignment snap or the drawing jitter makes to
\* a coordinate on one tick
CorrBound == Lit(1, 10)

\* coordinate a of particle i moved by the velocity step of the tick, up to
\* the alignment and jitter corrections, or was stopped at the boundary
Continuous(i, a) ==
  LET step == Mul(vel'[i][a], IF version = 2 THEN timeScale' ELSE S)
  IN  \/ Abs(pos'[i][a] - pos[i][a] - step) <= CorrBound
      \/ Abs(pos'[i][a]) = PHYSICS.boundaryLimit

\* C12: a mode switch or configuration swap never teleports a particle: on
\* every tick, the first after a switch included, each finite position
\* component differs from its previous value by the velocity step of the
\* tick and the bounded alignment / jitter corrections only.
C12_NoTeleport ==
  [][Tick =>
       \A i \in Particles : \A a \in Axes :
         (Finite(pos[i][a]) /\ Finite(pos'[i][a]) /\ Finite(vel'[i][a]))
           => Continuous(i, a)]_vars

\* the same for the particles that are not in the drawing pool of
\* AIR_DRAWING
C12_NoTeleportOutsidePool ==
  [][Tick =>
       \A i \in Particles : \A a \in Axes :
         ( /\ ~(version = 3 /\ mode = "AIR_DRAWING" /\ i < DrawPool)
           /\ Finite(pos[i][a]) /\ Finite(pos'[i][a]) /\ Finite(vel'[i][a]) )
           => Continuous(i, a)]_vars

\* the point the claim has particle i pulled toward: its shape vertex when
\* the configuration has a non-empty list, else its home position
PullTarget(i) ==
  IF HasShape(aiConfig) THEN ShapeVertex(aiConfig, i) ELSE initialPositions[i]

\* a particle at rest with no hand shown is given a velocity that points
\* from its position to the target on every axis
PulledToward(i, target) ==
  \A a \in Axes :
    LET gap == target[a] - pos[i][a]
    IN  /\ Sgn(vel'[i][a]) \in {0, Sgn(gap)}
        /\ Abs(gap) >= Lit(1, 100) => vel'[i][a] # 0

\* the ticks on which the pull can be read off the velocity: a home mode,
\* no hands, every particle finite and at rest
AtRestNoHands ==
  /\ mode \in HomeModes
  /\ handsRef = <<>>
  /\ \A i \in Particles : VFinite(pos[i]) /\ vel[i] = Zero3

\* C13: whether the scene configuration is absent, has no shapeVertices or
\* has an empty list, every tick completes without throwing and pulls each
\* particle toward its home position; with a non-empty list particle i is
\* pulled toward shapeVertices[i mod vertexCount].
C13_ShapeFallback ==
  [][Tick =>
       /\ ~threw'
       /\ AtRestNoHands => \A i \in Particles : PulledToward(i, PullTarget(i))]_vars

\* the gesture version alone conforms
C13_ShapeFallbackV2 ==
  [][(Tick /\ version = 2) =>
       /\ ~threw'
       /\ AtRestNoHands => \A i \in Particles : PulledToward(i, PullTarget(i))]_vars

\* the first version never throws and always pulls toward home
C13_HomeOnlyV1 ==
  [][(Tick /\ version = 1) =>
       /\ ~threw'
       /\ AtRestNoHands => \A i \in Particles : PulledToward(i, initialPositions[i])]_vars

\* the latest version pulls toward the target unless the list is empty
C13_ThrowsOnlyOnEmptyV3 ==
  [][(Tick /\ version = 3) =>
       /\ threw' => ShapeThrowsV3(aiConfig)
       /\ (AtRestNoHands /\ ~threw') =>
            \A i \in Particles : PulledToward(i, PullTarget(i))]_vars

\* no tick ends by an exception
C13_NeverThrows == ~threw

\* the scalar product of two vectors
Dot(u, w) == Add(Add(Mul(u[1], w[1]), Mul(u[2], w[2])), Mul(u[3], w[3]))

\* the palm of hand h in simulation space, as the running version scales it
PalmInScene(h) == IF version = 3 THEN ScaledPalmV3(h) ELSE ScaledPalm(h)

\* the vector from particle i to the only hand shown
ToHand(i) == VSub(PalmInScene(handsRef[1]), pos[i])

\* the ticks and particles on which the force of the hand can be read off
\* the velocity: one hand, at a positive distance below repelFalloff of
\* particle i, which is at rest at its home position with no shape to go to
InRepelRange(i) ==
  /\ Len(handsRef) = 1
  /\ vel[i] = Zero3
  /\ pos[i] = initialPositions[i]
  /\ ~aiConfig.shapeVertices.defined
  /\ Norm3(ToHand(i)) > 0
  /\ Norm3(ToHand(i)) < PHYSICS.repelFalloff
  /\ VFinite(vel'[i])

\* the hand attracts: open (or pointing, in the gesture version) and
\* inside attractFalloff
Attracts(i) ==
  /\ version \in {1, 2}
  /\ handsRef[1].isOpen \/ (version = 2 /\ handsRef[1].gesture = "POINTER")
  /\ Norm3(ToHand(i)) < PHYSICS.attractFalloff

\* C14: every hand that is not pinching and is within repelFalloff of a
\* particle pushes the particle away from it on the tick, whether the hand
\* is open or closed; a pinching hand never pushes.
C14_NonPinchingRepels ==
  [][Tick =>
       \A i \in Particles :
         InRepelRange(i) =>
           IF handsRef[1].isPinching
           THEN Dot(vel'[i], ToHand(i)) >= 0
           ELSE Dot(vel'[i], ToHand(i)) < 0]_vars

\* in the first and the gesture version a hand that is not pinching and
\* does not attract pushes the particle away, an attracting hand pulls it,
\* and a pinching hand that does not attract leaves it at rest
C14_RepelsUnlessAttracting ==
  [][(Tick /\ version \in {1, 2}) =>
       \A i \in Particles :
         InRepelRange(i) =>
           IF Attracts(i) THEN Dot(vel'[i], ToHand(i)) > 0
           ELSE IF handsRef[1].isPinching THEN vel'[i] = Zero3
           ELSE Dot(vel'[i], ToHand(i)) < 0]_vars

\* in the latest version no hand pushes a particle away
C14_NoRepulsionV3 ==
  [][(Tick /\ version = 3) =>
       \A i \in Particles : InRepelRange(i) => Dot(vel'[i], ToHand(i)) >= 0]_vars

\* particle i, at rest with no hand shown, is left at rest by the tick
StaysAtRest(i) == (handsRef = <<>> /\ vel[i] = Zero3) => vel'[i] = Zero3

\* C15: home / shape attraction is added to a velocity only on ticks whose
\* mode is PLAYGROUND or AI_ORACLE: in AIR_DRAWING, SILHOUETTE and
\* AUDIO_REACTIVE a particle at rest with no hand shown stays at rest,
\* wherever its home is.
C15_PullOnlyInHomeModes ==
  [][(Tick /\ mode \notin HomeModes) => \A i \in Particles : StaysAtRest(i)]_vars

\* the first and the gesture version gate the pull by the mode
C15_GatedV1V2 ==
  [][(Tick /\ version \in {1, 2} /\ mode \notin HomeModes) =>
       \A i \in Particles : StaysAtRest(i)]_vars

\* the latest version pulls every particle outside the drawing pool toward
\* its home in every mode
C15_UngatedV3 ==
  [][(Tick /\ version = 3 /\ handsRef = <<>>) =>
       \A i \in Particles :
         ( /\ ~(mode = "AIR_DRAWING" /\ i < DrawPool)
           /\ vel[i] = Zero3
           /\ VFinite(pos[i]) )
           => PulledToward(i, initialPositions[i])]_vars

\* the velocities the latest version can give particle i on this tick if
\* one behaviour alone, or none, acts on it: compression toward the
\* midpoint, silhouette tracking, or hand attraction with the home / shape
\* return.  With none the velocity is kept, or zeroed when the particle is
\* stamped into the drawing.
SingleBehaviours(i) ==
  {vel[i], ClampSpeedV3(vel[i])}
  \cup (IF mode = "AIR_DRAWING" /\ i < DrawPool THEN {Zero3} ELSE {})
  \cup (IF IsCompressing(handsRef)
        THEN {ClampSpeedV3(CompressV3(pos[i], vel[i], Midpoint(handsRef), time'))}
        ELSE {})
  \cup (IF mode = "SILHOUETTE" /\ Len(handsRef) > 0
        THEN {ClampSpeedV3(SilhouetteV3(i, pos[i], vel[i], smoothedLandmarks', handsRef))}
        ELSE {})
  \cup {ClampSpeedV3(DefaultV3(i, pos[i], vel[i], initialPositions[i], handsRef, aiConfig))}

\* C16: on every tick the mode-gated behaviours are mutually exclusive for
\* each particle: its new velocity is the result of at most one of
\* compression, silhouette tracking and hand attraction with home / shape
\* return (the only behaviours there are; the first and the gesture version
\* have the last one alone), and when the silhouette is tracked the result
\* is that of the tracking alone, with no home / shape return in it.
C16_BehavioursExclusive ==
  [][Tick =>
       \A i \in Particles :
         /\ vel'[i] \in SingleBehaviours(i)
         /\ ( /\ mode = "SILHOUETTE" /\ Len(handsRef) > 0
              /\ ~IsCompressing(handsRef) )
              => vel'[i] = ClampSpeedV3(SilhouetteV3(i, pos[i], vel[i],
                                                     smoothedLandmarks', handsRef))]_vars

\* C16 witness: the latest version has tracked the silhouette of a closed
\* hand, which attracts nothing, and the tracking has moved a particle off
\* its home position, where the home return pulls it back
C16_Witness ==
  /\ version = 3 /\ frames > 0
  /\ mode = "SILHOUETTE" /\ handsRef = <<PeaceHand>>
  /\ \E i \in Particles :
       /\ VFinite(vel[i]) /\ vel[i] # Zero3
       /\ pos[i] # initialPositions[i]

\* the maximum speed in force on the tick that ends: the tweened
\* activeMaxSpeed of the first version, PHYSICS.maxSpeed in the others
CurrentMaxSpeed == IF version = 1 THEN activeMaxSpeed' ELSE PHYSICS.maxSpeed

\* the speed of particle i after the tick is at most the maximum speed
WithinMaxSpeed(i) ==
  VFinite(vel'[i]) => Norm3(vel'[i]) <= CurrentMaxSpeed + NormSlack(CurrentMaxSpeed)

\* C17: after every tick the velocity magnitude of every particle is at
\* most the current maximum speed.
C17_SpeedClamped ==
  [][Tick => \A i \in Particles : WithinMaxSpeed(i)]_vars

\* the first and the latest version clamp the speed
C17_ClampedV1V3 ==
  [][(Tick /\ version \in {1, 3}) => \A i \in Particles : WithinMaxSpeed(i)]_vars

\* the size of particle i moved by at most the smoothing fraction of its
\* gap to the target size (base size plus the audio contribution)
SizeSmoothed(i) ==
  Abs(sizes'[i] - sizes[i])
    <= Mul(Abs(TargetSize(aiConfig, audioLevel) - sizes[i]), Smoothing)

\* C18: on every tick and in every mode, drawing-pool particles and
\* compression included, the displayed size of every particle moves by at
\* most 0.1 of the gap to its target size.
C18_SizeSmoothed ==
  [][Tick => \A i \in Particles : SizeSmoothed(i)]_vars

\* the first and the gesture version smooth the size
C18_SizeSmoothedV1V2 ==
  [][(Tick /\ version \in {1, 2}) => \A i \in Particles : SizeSmoothed(i)]_vars

\* the latest version assigns the size: a multiple of the size itself,
\* or of the draw timer in the drawing pool
C18_SizeAssignedV3 ==
  [][(Tick /\ version = 3 /\ ~threw') =>
       \A i \in Particles :
         sizes'[i] \in { Mul(DRAWING_CONFIG[drawStyle].size, drawTimers'[i]),
                         GrowSize(sizes[i], 3 * S),
                         GrowSize(sizes[i], Add(S, audioLevel)) }]_vars

\* the target colour of particle i on the tick that ends, as the running
\* version computes it from the speed of the particle
TickTarget(i) ==
  IF version = 1
  THEN TargetColV1(StepV1(pos[i], vel[i], initialPositions[i], handsRef, mode,
                          aiConfig, activeFriction', activeAttract',
                          activeMaxSpeed').currentSpeed,
                   aiConfig)
  ELSE IF version = 2 THEN TargetColV2(Norm3(vel'[i]), aiConfig)
  ELSE TargetColV3(i,
                   Norm3(PhysicsV3(i, pos[i], vel[i], initialPositions[i], handsRef,
                                   mode, aiConfig, smoothedLandmarks', time')),
                   handsRef, mode, aiConfig, drawStyle, time')

\* every channel of the colour of particle i is finite and moved by at
\* most the smoothing factor times its distance to the target
ColorSmoothed(i) ==
  \A c \in Axes :
    /\ Finite(colors'[i][c])
    /\ Abs(colors'[i][c] - colors[i][c])
         <= Mul(Abs(TickTarget(i)[c] - colors[i][c]), Smoothing)

\* C19: on every tick, for every particle and colour channel, the change
\* of the displayed colour is at most 0.1 times the distance between the
\* previous displayed value and the target of the tick.
C19_ColorSmoothed ==
  [][(Tick /\ ~threw') => \A i \in Particles : ColorSmoothed(i)]_vars

\* the same on the ticks on which every position and velocity is finite
C19_ColorSmoothedFinite ==
  [][(Tick /\ ~threw' /\ \A i \in Particles : VFinite(pos'[i]) /\ VFinite(vel'[i])) =>
       \A i \in Particles : ColorSmoothed(i)]_vars

\* the configuration is replaced by a scene configuration
ConfigReplaced == aiConfig' # aiConfig /\ aiConfig'.present

\* a parameter whose effective value was prev and whose new configuration
\* value is new has the value next on the first tick after the
\* replacement: on the way from prev to new, and not yet new
Gradual(prev, next, new) ==
  new # prev =>
    /\ next # new
    /\ (prev <= next /\ next <= new) \/ (new <= next /\ next <= prev)

\* the value a tweened ref has on the first tick after the replacement
FirstTickValue(tw) == TweenValue(tw, 1)

\* the three tweened refs move gradually (the gesture version has no
\* maximum speed)
TweenedGradual ==
  /\ Gradual(activeFriction, FirstTickValue(tween'.friction), aiConfig'.friction)
  /\ Gradual(activeAttract, FirstTickValue(tween'.attract), aiConfig'.attractForce)
  /\ version = 1 =>
       Gradual(activeMaxSpeed, FirstTickValue(tween'.maxSpeed), aiConfig'.maxSpeed)

\* the repulsion strength moves gradually: the one the first tick after
\* the replacement reads is not yet the new configuration's
RepelGradual ==
  Gradual(RepelStrength(aiConfig), RepelStrength(aiConfig'), aiConfig'.repelForce)

\* C20: when the scene configuration is replaced, every physics parameter
\* the tick takes from it (friction, attraction force, repulsion force,
\* maximum speed) moves gradually from its previous effective value to the
\* new one; none has the new value on the first tick after the
\* replacement.
C20_ParametersGradual ==
  [][(ConfigReplaced /\ version \in {1, 2}) => (TweenedGradual /\ RepelGradual)]_vars

\* the tweened parameters alone: friction, attraction force, maximum speed
C20_TweenedGradual ==
  [][(ConfigReplaced /\ version \in {1, 2}) => TweenedGradual]_vars

\* the repulsion strength a tick reads is that of the configuration in
\* force, at once
C20_RepelImmediate ==
  [][(ConfigReplaced /\ version \in {1, 2} /\ aiConfig'.repelForce # 0) =>
       RepelStrength(aiConfig') = aiConfig'.repelForce]_vars

(***************************************************************************)
(* C21: clearing the scene configuration                                   *)
(***************************************************************************)
\* the configuration prop goes from a configuration to null
ConfigCleared == aiConfig.present /\ ~aiConfig'.present

\* the three refs the tick reads hold the PHYSICS defaults after the tick
\* (the gesture version has no maximum-speed ref)
RefsAtDefaults ==
  /\ activeFriction' = PHYSICS.friction
  /\ activeAttract' = PHYSICS.attractForce
  /\ version = 1 => activeMaxSpeed' = PHYSICS.maxSpeed

\* C21: on every tick that runs while the scene configuration is absent,
\* the effective friction, attraction force and maximum speed are the
\* PHYSICS defaults, also after a configuration had been active
C21_DefaultsWhenAbsent ==
  [][(Tick /\ version \in {1, 2} /\ ~aiConfig.present) => RefsAtDefaults]_vars

\* what the code does instead: clearing the configuration starts no tween
\* and writes no ref, so the refs keep following the last configuration
C21_ClearingKeepsRefs ==
  [][ConfigCleared =>
       UNCHANGED << activeFriction, activeAttract, activeMaxSpeed, tween >>]_vars

(***************************************************************************)
(* C22: home positions and particle count are fixed                        *)
(***************************************************************************)
\* the four per-particle arrays hold exactly PARTICLE_COUNT particles
CountFixed ==
  /\ DOMAIN pos = Particles
  /\ DOMAIN vel = Particles
  /\ DOMAIN colors = Particles
  /\ DOMAIN sizes = Particles
  /\ Cardinality(Particles) = NumParticles

\* C22: no tick writes the home-position array or changes the particle
\* count: initialPositions never changes after initialization and the
\* position, velocity, colour and size arrays always hold exactly
\* PARTICLE_COUNT particles
C22_HomeAndCountFixed ==
  /\ []CountFixed
  /\ [][initialPositions' = initialPositions]_vars

\* ticks of the latest version have run in the drawing mode and a pool
\* particle has been stamped away from its home
C22_Witness ==
  /\ version = 3
  /\ frames >= 2
  /\ mode = "AIR_DRAWING"
  /\ \E i \in Particles :
       i < DrawPool /\ Gt(drawTimers[i], 0) /\ pos[i] # initialPositions[i]

(***************************************************************************)
(* C23: the bounce at the boundary                                         *)
(***************************************************************************)
\* the reflection coefficients the claim allows
MinReflection == Lit(5, 10)
MaxReflection == Lit(9, 10)

\* vout is vin reflected: the opposite sign, and a magnitude between
\* MinReflection and MaxReflection times the magnitude of vin
Reflected(vin, vout) ==
  /\ Finite(vin) /\ Finite(vout)
  /\ Sgn(vout) = -Sgn(vin)
  /\ Mul(Abs(vin), MinReflection) <= Abs(vout)
  /\ Abs(vout) <= Mul(Abs(vin), MaxReflection)

\* what the claim requires of one axis: x and vx are the position and the
\* velocity after the advance, x2 and vx2 the ones the tick stores
AxisBounced(x, vx, x2, vx2) ==
  IF Gt(MathAbs(x), PHYSICS.boundaryLimit)
  THEN x2 = Mul(MathSign(x), PHYSICS.boundaryLimit) /\ Reflected(vx, vx2)
  ELSE x2 = x /\ vx2 = vx

\* the tick stored the bounce of (p, v) for particle i, axis by axis
Bounced(i, p, v) ==
  \A a \in Axes : AxisBounced(p[a], v[a], pos'[i][a], vel'[i][a])

\* the first and the gesture version: the advanced position and velocity
\* are those the step computes before its boundary check
BouncedV1 ==
  \A i \in Particles :
    LET r == StepV1(pos[i], vel[i], initialPositions[i], handsRef, mode,
                    aiConfig, activeFriction', activeAttract', activeMaxSpeed')
    IN  Bounced(i, r.advanced, r.incoming)

BouncedV2 ==
  \E rnd \in Rands(IF Gt(chaosFactor', Lit(1, 10)) THEN Particles ELSE {}) :
    \A i \in Particles :
      LET r == StepV2(i, pos[i], vel[i], initialPositions[i], handsRef, mode,
                      aiConfig, activeFriction', activeAttract', timeScale',
                      chaosFactor', alignmentFactor', rnd[i])
      IN  r.pos = pos'[i] /\ r.vel = vel'[i] /\ Bounced(i, r.advanced, r.incoming)

\* the latest version stores the advanced position and velocity themselves
BouncedV3 ==
  \A i \in Particles : Bounced(i, pos'[i], vel'[i])

\* C23: on every tick, an axis whose position exceeds boundaryLimit after
\* the advance is set to sign * limit and its velocity is reflected with a
\* coefficient in [0.5, 0.9]; the other axes keep the advanced position and
\* velocity
C23_BoundaryBounce ==
  [][(Tick /\ ~threw') =>
       /\ version = 1 => BouncedV1
       /\ version = 2 => BouncedV2
       /\ version = 3 => BouncedV3]_vars

\* the first and the gesture version do bounce so
C23_BounceV1V2 ==
  [][Tick => /\ version = 1 => BouncedV1
             /\ version = 2 => BouncedV2]_vars

(***************************************************************************)
(* C24: the alignment snap                                                 *)
(***************************************************************************)
\* the grid points considered: those within twice the boundary limit
GridCells == (2 * PHYSICS.boundaryLimit) \div gridSize

\* g is a multiple of the grid cell size nearest to x
NearestGridPoint(x, g) ==
  /\ \E k \in -GridCells .. GridCells : g = k * gridSize
  /\ 2 * Abs(x - g) <= gridSize

\* x2 is x moved toward g by the fraction f, up to the rounding of one
\* product, and not past g
MovedToward(x, x2, g, f) ==
  /\ (x <= x2 /\ x2 <= g) \/ (g <= x2 /\ x2 <= x)
  /\ Abs((x2 - x) - Mul(g - x, f)) <= 1

\* the snap of one coordinate, as the claim describes it
AxisSnapped(x, x2, alignment) ==
  Finite(x) =>
    \E k \in -GridCells .. GridCells :
      /\ NearestGridPoint(x, k * gridSize)
      /\ MovedToward(x, x2, k * gridSize, Mul(alignment, Lit(15, 100)))

\* one particle's step r of the gesture version: the snap acts on the
\* advanced position, above the threshold only, and the velocity the
\* advance used reaches the boundary check unchanged
SnapOfStep(i, r) ==
  /\ r.moved = AdvanceV2(pos[i], r.incoming, timeScale')
  /\ IF Gt(alignmentFactor', Lit(1, 10))
     THEN \A a \in Axes : AxisSnapped(r.moved[a], r.advanced[a], alignmentFactor')
     ELSE r.advanced = r.moved

\* C24: the alignment snap is applied only on ticks whose blended alignment
\* amplitude exceeds 0.1, after the position advance; it moves each
\* coordinate toward the nearest multiple of 1.2 by the fraction
\* amplitude * 0.15, never past the grid point, and leaves the velocity
\* unchanged
C24_AlignmentSnap ==
  [][(Tick /\ version = 2) =>
       \A i \in Particles :
         \E x \in (IF Gt(chaosFactor', Lit(1, 10)) THEN RandTriples ELSE {NoRand}) :
         \E r \in {StepV2(i, pos[i], vel[i], initialPositions[i], handsRef, mode,
                           aiConfig, activeFriction', activeAttract', timeScale',
                           chaosFactor', alignmentFactor', x)} :
           r.pos = pos'[i] /\ r.vel = vel'[i] /\ SnapOfStep(i, r)]_vars

\* the last tick ran with the alignment amplitude above the threshold and
\* snapped a particle that is off the grid
C24_Witness ==
  /\ version = 2
  /\ frames >= 3
  /\ Gt(alignmentFactor, Lit(1, 10))
  /\ \E i \in Particles : \E a \in Axes :
       Finite(pos[i][a]) /\ pos[i][a] % gridSize # 0

(***************************************************************************)
(* C25, C26, C27: the two-hand swipe                                       *)
(***************************************************************************)
\* this step is a detectLoop callback whose swipe check called cycleMode
SwipeCycle == loops' = loops + 1 /\ Len(pendingModes') > Len(pendingModes)

\* the mode that callback handed to handleModeChange
CycledTo == pendingModes'[Len(pendingModes')]

\* the direction the palms moved by more than swipeThreshold from the
\* positions in `before` to those in `after` (two hands each): 1 leftward,
\* -1 rightward, 0 otherwise
MovedDirection(before, after) ==
  IF Len(before) = 2 /\ Len(after) = 2
  THEN LET dx1 == after[1].palm[1] - before[1].palm[1]
           dx2 == after[2].palm[1] - before[2].palm[1]
       IN  IF dx1 > swipeThreshold /\ dx2 > swipeThreshold THEN -1
           ELSE IF dx1 < -swipeThreshold /\ dx2 < -swipeThreshold THEN 1
           ELSE 0
  ELSE 0

\* C25: each swipe that triggers a mode cycle moves the mode to the
\* neighbour (next for a leftward swipe, previous for a rightward one,
\* wrapping around MODES) of the mode that is active at the time of the swipe
C25_CyclesFromActiveMode ==
  [][SwipeCycle =>
       \E direction \in {-1, 1} :
         /\ SwipeDirection(handsRef', now') = direction
         /\ CycledTo = CycleTarget(mode, direction)]_vars

\* what the running loop does: it cycles from the mode of the first render
C25_CyclesFromFirstRender ==
  [][SwipeCycle =>
       \E direction \in {-1, 1} :
         /\ SwipeDirection(handsRef', now') = direction
         /\ CycledTo = CycleTarget("PLAYGROUND", direction)]_vars

\* C26: a swipe-triggered mode cycle fires only when both palms moved by
\* more than swipeThreshold in the same x direction between two consecutive
\* detection results: the result before this one showed two hands, and from
\* it to this one both palms moved
C26_SwipeNeedsMovement ==
  [][SwipeCycle => MovedDirection(handsRef, handsRef') # 0]_vars

\* the same where the callback before this one delivered two hands: the
\* palms moved from that result to this one
C26_TwoHandsBeforeNeedMovement ==
  [][(SwipeCycle /\ Len(handsRef) = 2) =>
       MovedDirection(handsRef, handsRef') # 0]_vars

\* what the loop compares with: lastHandXRef, whatever its age
C26_ComparesWithLastHandX ==
  [][SwipeCycle =>
       /\ Len(handsRef') = 2
       /\ Abs(handsRef'[1].palm[1] - lastHandX[1]) > swipeThreshold
       /\ Abs(handsRef'[2].palm[1] - lastHandX[2]) > swipeThreshold]_vars

\* the time of the callback that set the cooldown
LastSwipeAt == gestureCooldown - cooldownMs

\* C27: after a swipe has triggered a mode cycle, no further
\* swipe-triggered mode cycle occurs during the next 1000 ms: a cycle is
\* the first one, or comes more than cooldownMs after the one before
C27_NoCycleDuringCooldown ==
  [][SwipeCycle =>
       /\ gestureCooldown' = now' + cooldownMs
       /\ gestureCooldown = 0 \/ now' - LastSwipeAt > cooldownMs]_vars

\* within the cooldown of a cycle, the detection delivered two hands that
\* both moved by more than the threshold from the remembered positions, and
\* no second cycle happened
C27_Witness ==
  /\ gestureCooldown > 0
  /\ now > LastSwipeAt
  /\ now <= gestureCooldown
  /\ Len(handsRef) = 2
  /\ handsRef[1].palm[1] - lastHandX[1] > swipeThreshold
  /\ handsRef[2].palm[1] - lastHandX[2] > swipeThreshold
  /\ Len(pendingModes) + (IF mode = "PLAYGROUND" THEN 0 ELSE 1) = 1

(***************************************************************************)
(* C28: isAiLoading and the requests in flight                             *)
(***************************************************************************)
\* C28: isAiLoading is true whenever at least one generateOracleWorld
\* request is in flight, also when the prompt was submitted again before an
\* earlier request resolved
C28_LoadingWhilePending == inFlight > 0 => isAiLoading

\* the other direction does hold: isAiLoading is true only while a request
\* is in flight
C28_LoadingOnlyWhilePending == isAiLoading => inFlight > 0

\* a request that ends clears isAiLoading, on success and on failure alike,
\* and a failed request leaves aiConfig unchanged
C28_EndClearsLoading ==
  [][(inFlight' < inFlight => ~isAiLoading') /\ (OracleFails => aiConfig' = aiConfig)]_vars

\* with one request at a time the flag is exact
C28_ExactForSingleRequests ==
  [][(inFlight = 0 /\ inFlight' = 1) => isAiLoading']_vars

(***************************************************************************)
(* C29: the drawing pool as a ring buffer                                  *)
(***************************************************************************)
\* the particles of the drawing pool
Pool == {i \in Particles : i < DrawPool}

\* the hands that draw: pinching or pointing
DrawingHands(hands) ==
  {j \in 1 .. Len(hands) : hands[j].isPinching \/ hands[j].gesture = "POINTER"}

\* a tick of the latest version in AIR_DRAWING
DrawingTick == Tick /\ version = 3 /\ mode = "AIR_DRAWING"

\* the tick stamped particle i: its timer is 1.0 again (a timer that decays
\* ends below 1.0, an inactive one stays 0)
Stamped(i) == drawTimers'[i] = S

\* the index after drawIndex in the ring
NextInRing == (drawIndex + 1) % DrawPool

\* a pool particle the tick did not stamp keeps its position up to the
\* jitter (or is hidden at z = -100) and its timer decays
KeptInPool(i) ==
  IF Gt(drawTimers[i], 0)
  THEN /\ drawTimers'[i] = Mul(drawTimers[i], DRAWING_CONFIG[drawStyle].decay)
       /\ \A a \in Axes :
            2 * Abs(pos'[i][a] - (pos[i][a] + vel'[i][a]))
              <= DRAWING_CONFIG[drawStyle].jitter
  ELSE /\ drawTimers'[i] = drawTimers[i]
       /\ pos'[i][3] = Add(-100 * S, vel'[i][3])

\* C29: on a drawing tick with one hand pinching or pointing, exactly one
\* pool particle, index (drawIndex + 1) mod drawPoolSize, is stamped at the
\* hand position with zero velocity and timer 1.0, drawIndex advances by
\* exactly one modulo drawPoolSize, and the other pool particles keep their
\* positions (up to jitter) and decaying timers
C29_RingBuffer ==
  [][(DrawingTick /\ Cardinality(DrawingHands(handsRef)) = 1) =>
       LET h == handsRef[CHOOSE j \in DrawingHands(handsRef) : TRUE]
       IN  /\ drawIndex' = NextInRing
           /\ pos'[NextInRing] = DrawTarget(h)
           /\ vel'[NextInRing] = Zero3
           /\ \A i \in Pool : Stamped(i) <=> i = NextInRing
           /\ \A i \in Pool \ {NextInRing} : KeptInPool(i)]_vars

\* what the tick does: drawIndex advances inside the particle loop, so every
\* pool particle from the next index to the end of the pool is stamped and
\* drawIndex ends at the last index of the pool
C29_StampsRestOfPool ==
  [][(DrawingTick /\ Cardinality(DrawingHands(handsRef)) = 1) =>
       LET h == handsRef[CHOOSE j \in DrawingHands(handsRef) : TRUE]
       IN  /\ drawIndex' = DrawPool - 1
           /\ \A i \in Pool :
                IF i >= NextInRing
                THEN Stamped(i) /\ pos'[i] = DrawTarget(h) /\ vel'[i] = Zero3
                ELSE ~Stamped(i) /\ KeptInPool(i)]_vars

\* without a drawing hand nothing is stamped and drawIndex stays
C29_NoHandNoStamp ==
  [][(DrawingTick /\ DrawingHands(handsRef) = {}) =>
       /\ drawIndex' = drawIndex
       /\ \A i \in Pool : KeptInPool(i)]_vars

(***************************************************************************)
(* C30: the displayed size stays bounded                                   *)
(***************************************************************************)
\* the largest element of a non-empty finite set of numbers
Largest(T) == CHOOSE x \in T : \A y \in T : y <= x

\* the largest target size of a configuration and an audio level in [0, 1]
LargestTarget ==
  Largest({TargetSize(cfg, S) : cfg \in Configs \cup {NullConfig}})

\* the largest size of a drawn particle: config.size at timer 1.0
LargestDrawn == Largest({DRAWING_CONFIG[s].size : s \in DOMAIN DRAWING_CONFIG})

\* the fixed bound of particle i: three times its initial size (compression;
\* twice at full audio is below it), the largest target size, the largest
\* drawn size
SizeBound(i) == Largest({3 * SizeOf(i), LargestTarget, LargestDrawn})

\* C30: over any number of ticks each particle's displayed size stays
\* within a fixed bound determined by its initial size, the configured
\* particle size and the audio level (at most 3x the initial size while
\* compressing, at most 2x at full audio); the size does not keep growing
\* from tick to tick
C30_SizeBounded == \A i \in Particles : sizes[i] <= SizeBound(i)

\* the first and the gesture version keep the size between its initial
\* value and the target sizes
C30_BoundedV1V2 ==
  version \in {1, 2} =>
    \A i \in Particles : sizes[i] <= Largest({SizeOf(i), LargestTarget})

\* the latest version multiplies the size it stored on the tick before:
\* while two hands compress, every tick triples the size of a particle
\* outside the drawing pool
C30_TriplesEveryTick ==
  [][(Tick /\ version = 3 /\ ~threw' /\ IsCompressing(handsRef)
        /\ mode # "AIR_DRAWING") =>
       \A i \in Particles : sizes'[i] = GrowSize(sizes[i], 3 * S)]_vars

\* without compression every tick multiplies the size by 1 + audioData
C30_GrowsWithAudio ==
  [][(Tick /\ version = 3 /\ ~threw' /\ ~IsCompressing(handsRef)
        /\ mode # "AIR_DRAWING") =>
       \A i \in Particles : sizes'[i] = GrowSize(sizes[i], Add(S, audioLevel))]_vars

=============================================================================
